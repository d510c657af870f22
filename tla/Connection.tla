----------------------------- MODULE Connection -----------------------------
(***************************************************************************)
(* How the TUI stays connected to the daemon (tccd-tui/src/poller.rs,      *)
(* main.rs, dbus_client.rs and the messages of update.rs they lead to).    *)
(*                                                                         *)
(* One client, behind a fair mutex, is shared by the fast poller, which    *)
(* asks for the fan speed and connects again after an error, the medium    *)
(* poller, and a task per command of the user.  What they learn goes       *)
(* through a channel to the main loop, which alone changes what is shown.  *)
(* The message bus and the daemon come and go.                             *)
(*                                                                         *)
(* A call has no time limit.  The daemon answers or refuses each call that *)
(* reaches it, or the bus reports that it is gone.                         *)
(***************************************************************************)
EXTENDS Naturals, Sequences, Functions

CONSTANTS
  Commands,  \* saves the user sends, each once
  Changes,   \* bound: how often the power supply changes
  Faults     \* of "bus", "daemon", "refuse" and "connect", what can fail

ASSUME CommandsAssumption == Commands \cap {"fast", "medium"} = {}
ASSUME ChangesAssumption == Changes \in Nat
ASSUME FaultsAssumption == Faults \subseteq {"bus", "daemon", "refuse", "connect"}

VARIABLES
  bus,      \* the message bus is up
  daemon,   \* the daemon owns its name on the bus
  source,   \* the supply, and with it the profile, the daemon sees
  proxy,    \* DaemonClient::proxy: "none", "live" or "dead" with its connection
  queue,    \* tasks at the mutex of the client; the first one has it
  request,  \* its call: "none", "sent", or how it ended, "ok" or "error"
  reply,    \* the supply its answer tells of, Unknown if it tells of none
  fast,     \* the fast poller: "asleep", "asking", "answered", "failed", "connecting"
  medium,   \* the medium poller: "asleep", or the call it is at
  command,  \* of each command: "unsent", "spawned", "asking" or "ended"
  carried,  \* the commands the daemon has carried out
  inbox,    \* the channel to the main loop
  status,   \* connection_status
  shown,    \* power_on_ac and active_profile_name of the dashboard
  told,     \* the notification of each command: "nothing", "ok" or "error"
  quit,     \* the main loop has returned
  last      \* history: the outcome of the last connect()

env == <<bus, daemon, source>>
client == <<proxy, queue, request, reply>>
tasks == <<fast, medium, command>>
screen == <<status, shown, told, quit>>
vars == <<env, client, tasks, carried, inbox, screen, last>>

(* The supplies and their profiles, numbered as they come. *)
Sources == 1 .. Changes + 1
Unknown == 0

Pollers == {"fast", "medium"}
Waiters == Pollers \cup Commands

Message ==
  [kind : {"lost", "restored"}] \cup [kind : {"power", "curve"}, of : Sources]
    \cup [kind : {"result"}, command : Commands, outcome : {"ok", "error"}]

Post(m) == inbox' = Append(inbox, m)

(* The messages of these kinds have been handled. *)
Handled(kinds) == \A i \in 1 .. Len(inbox) : inbox[i].kind \notin kinds

-----------------------------------------------------------------------------
(* The start: main() connects once before it spawns the pollers. *)

Init ==
  /\ bus \in BOOLEAN
  /\ daemon \in {bus, FALSE}
  /\ source = 1
  /\ \E ok \in {bus} \cup (IF "connect" \in Faults THEN {FALSE} ELSE {}) :
       /\ proxy = IF ok THEN "live" ELSE "none"
       /\ status = IF ok THEN "connected" ELSE "disconnected"
       /\ last = IF ok THEN "ok" ELSE "error"
  /\ queue = << >> /\ request = "none" /\ reply = Unknown
  /\ fast = "asleep" /\ medium = "asleep"
  /\ command = [c \in Commands |-> "unsent"]
  /\ carried = {}
  /\ inbox = << >>
  /\ shown = [power |-> Unknown, profile |-> Unknown]
  /\ told = [c \in Commands |-> "nothing"]
  /\ quit = FALSE

-----------------------------------------------------------------------------
(* What happens around the TUI *)

(* A call on the way fails when the other side goes; an answer on its way back
   may still arrive. *)
Interrupted ==
  \/ request \in {"none", "ok"} /\ UNCHANGED <<request, reply>>
  \/ request # "none" /\ request' = "error" /\ reply' = Unknown

(* The bus ends, and every connection with it. *)
BusDown ==
  /\ bus
  /\ bus' = FALSE /\ daemon' = FALSE
  /\ proxy' = IF proxy = "live" THEN "dead" ELSE proxy
  /\ Interrupted
  /\ UNCHANGED <<source, queue, tasks, carried, inbox, screen, last>>

DaemonDown ==
  /\ daemon
  /\ daemon' = FALSE
  /\ Interrupted
  /\ UNCHANGED <<bus, source, proxy, queue, tasks, carried, inbox, screen, last>>

BusUp ==
  /\ ~ bus
  /\ bus' = TRUE
  /\ UNCHANGED <<daemon, source, client, tasks, carried, inbox, screen, last>>

DaemonUp ==
  /\ bus /\ ~ daemon
  /\ daemon' = TRUE
  /\ UNCHANGED <<bus, source, client, tasks, carried, inbox, screen, last>>

SupplyChanges ==
  /\ source \in Sources \ {Changes + 1}
  /\ source' = source + 1
  /\ UNCHANGED <<bus, daemon, client, tasks, carried, inbox, screen, last>>

-----------------------------------------------------------------------------
(* A call by the task that has the client *)

Holder == Head(queue)

(* The call starts.  Without a proxy, on a dead connection or when nobody owns
   the name, it fails at once. *)
Call ==
  /\ ~ quit
  /\ queue # << >> /\ request = "none"
  /\ ~ (Holder = "fast" /\ fast = "connecting")
  /\ request' = IF proxy = "live" /\ daemon THEN "sent" ELSE "error"
  /\ UNCHANGED <<env, proxy, queue, reply, tasks, carried, inbox, screen, last>>

(* The daemon carries the call out, also when the TUI has ended meanwhile, or
   answers with an error: a fan that cannot be read, a profile that may not be
   changed. *)
Serve(broken) ==
  /\ request = "sent"
  /\ \/ /\ request' = "ok"
        /\ reply' = IF Holder = "medium" /\ medium # "cpu" THEN source ELSE Unknown
        /\ carried' = IF Holder \in Commands THEN carried \cup {Holder} ELSE carried
     \/ /\ "refuse" \in broken
        /\ request' = "error"
        /\ UNCHANGED <<reply, carried>>
  /\ UNCHANGED <<env, proxy, queue, tasks, inbox, screen, last>>

Answered == ~ quit /\ queue # << >> /\ request \in {"ok", "error"}

Release == queue' = Tail(queue) /\ request' = "none" /\ reply' = Unknown

-----------------------------------------------------------------------------
(* The fast poller *)

(* Bound: a poller wakes when the main loop has handled what it last sent, as
   it does in far less than the second a poller sleeps. *)
FastWakes ==
  /\ ~ quit
  /\ fast = "asleep" /\ Handled({"lost", "restored"})
  /\ fast' = "asking"
  /\ queue' = Append(queue, "fast")
  /\ UNCHANGED <<env, proxy, request, reply, medium, command, carried, inbox, screen, last>>

(* Mutant of FastAnswered: the guard lives to the end of the match, so the
   client is still locked when it is to be locked again. *)
FastAnsweredLocked ==
  /\ Answered /\ Holder = "fast"
  /\ fast' = IF request = "ok" THEN "answered" ELSE "failed"
  /\ request' = "none" /\ reply' = Unknown
  /\ queue' = IF request = "ok" THEN Tail(queue) ELSE queue
  /\ UNCHANGED <<env, proxy, medium, command, carried, inbox, screen, last>>

(* The client is released before the result is looked at. *)
FastAnswered ==
  /\ Answered /\ Holder = "fast"
  /\ Release
  /\ fast' = IF request = "ok" THEN "answered" ELSE "failed"
  /\ UNCHANGED <<env, proxy, medium, command, carried, inbox, screen, last>>

(* FanData is sent and changes no more than the dashboard's fan speed, which is
   left out; or ConnectionLost is, and the client is asked for once more. *)
FastReports ==
  /\ ~ quit
  /\ \/ /\ fast = "answered"
        /\ fast' = "asleep"
        /\ UNCHANGED <<queue, inbox>>
     \/ /\ fast = "failed"
        /\ fast' = "connecting"
        /\ Post([kind |-> "lost"])
        /\ queue' = Append(queue, "fast")
  /\ UNCHANGED <<env, proxy, request, reply, medium, command, carried, screen, last>>

(* Mutants of Connects: it is announced before it is known to have worked; a
   client that has a proxy keeps it. *)
ConnectsAnyway(broken) ==
  /\ ~ quit
  /\ queue # << >> /\ Holder = "fast" /\ fast = "connecting"
  /\ \E ok \in {bus} \cup (IF "connect" \in broken THEN {FALSE} ELSE {}) :
       /\ proxy' = IF ok THEN "live" ELSE proxy
       /\ last' = IF ok THEN "ok" ELSE "error"
  /\ Post([kind |-> "restored"])
  /\ fast' = "asleep" /\ queue' = Tail(queue)
  /\ UNCHANGED <<env, request, reply, medium, command, carried, screen>>

ConnectsOnce(broken) ==
  /\ ~ quit
  /\ queue # << >> /\ Holder = "fast" /\ fast = "connecting"
  /\ \E ok \in {proxy # "none" \/ bus} :
       /\ proxy' = IF proxy = "none" /\ ok THEN "live" ELSE proxy
       /\ last' = IF ok THEN "ok" ELSE "error"
       /\ IF ok THEN Post([kind |-> "restored"]) ELSE UNCHANGED inbox
  /\ fast' = "asleep" /\ queue' = Tail(queue)
  /\ UNCHANGED <<env, request, reply, medium, command, carried, screen>>

(* connect(): a new connection to the bus and a proxy on it, which does not need
   the daemon.  If it fails, the old proxy stays. *)
Connects(broken) ==
  /\ ~ quit
  /\ queue # << >> /\ Holder = "fast" /\ fast = "connecting"
  /\ \E ok \in {bus} \cup (IF "connect" \in broken THEN {FALSE} ELSE {}) :
       /\ proxy' = IF ok THEN "live" ELSE proxy
       /\ last' = IF ok THEN "ok" ELSE "error"
       /\ IF ok THEN Post([kind |-> "restored"]) ELSE UNCHANGED inbox
  /\ fast' = "asleep" /\ queue' = Tail(queue)
  /\ UNCHANGED <<env, request, reply, medium, command, carried, screen>>

Fast(broken) ==
  FastWakes \/ FastAnswered \/ FastReports \/ Connects(broken)

-----------------------------------------------------------------------------
(* The medium poller: three calls, each with the client to itself *)

MediumWakes ==
  /\ ~ quit
  /\ medium = "asleep" /\ Handled({"power", "curve"})
  /\ medium' = "cpu"
  /\ queue' = Append(queue, "medium")
  /\ UNCHANGED <<env, proxy, request, reply, fast, command, carried, inbox, screen, last>>

(* An error is dropped.  CpuMetrics, like FanData, is left out. *)
MediumAnswered ==
  /\ Answered /\ Holder = "medium"
  /\ IF request = "ok" /\ medium # "cpu"
     THEN Post([kind |-> medium, of |-> reply])
     ELSE UNCHANGED inbox
  /\ request' = "none" /\ reply' = Unknown
  /\ \/ /\ medium # "curve"
        /\ medium' = IF medium = "cpu" THEN "power" ELSE "curve"
        /\ queue' = Append(Tail(queue), "medium")
     \/ /\ medium = "curve"
        /\ medium' = "asleep"
        /\ queue' = Tail(queue)
  /\ UNCHANGED <<env, proxy, fast, command, carried, screen, last>>

Medium == MediumWakes \/ MediumAnswered

-----------------------------------------------------------------------------
(* The user's commands *)

(* dispatch_commands spawns a task; the runtime runs it when it likes. *)
Press(c) ==
  /\ ~ quit
  /\ command[c] = "unsent"
  /\ command' = [command EXCEPT ![c] = "spawned"]
  /\ UNCHANGED <<env, client, fast, medium, carried, inbox, screen, last>>

Starts(c) ==
  /\ ~ quit
  /\ command[c] = "spawned"
  /\ command' = [command EXCEPT ![c] = "asking"]
  /\ queue' = Append(queue, c)
  /\ UNCHANGED <<env, proxy, request, reply, fast, medium, carried, inbox, screen, last>>

(* The outcome is sent, and the client released. *)
Ends(c) ==
  /\ Answered /\ Holder = c
  /\ Release
  /\ Post([kind |-> "result", command |-> c, outcome |-> request])
  /\ command' = [command EXCEPT ![c] = "ended"]
  /\ UNCHANGED <<env, proxy, fast, medium, carried, screen, last>>

Task(c) == Starts(c) \/ Ends(c)

-----------------------------------------------------------------------------
(* The main loop *)

(* Mutant of Handle: lost is only a notification. *)
HandleKeepingStatus ==
  /\ ~ quit /\ inbox # << >>
  /\ inbox' = Tail(inbox)
  /\ LET m == Head(inbox) IN
     /\ status' = IF m.kind = "restored" THEN "connected" ELSE status
     /\ shown' = IF m.kind = "power" THEN [shown EXCEPT !.power = m.of]
                 ELSE IF m.kind = "curve" THEN [shown EXCEPT !.profile = m.of] ELSE shown
     /\ told' = IF m.kind = "result" THEN [told EXCEPT ![m.command] = m.outcome] ELSE told
  /\ UNCHANGED <<env, client, tasks, carried, quit, last>>

(* handle_data, for one message. *)
Handle ==
  /\ ~ quit /\ inbox # << >>
  /\ inbox' = Tail(inbox)
  /\ LET m == Head(inbox) IN
     /\ status' = IF m.kind = "lost" THEN "disconnected"
                  ELSE IF m.kind = "restored" THEN "connected" ELSE status
     /\ shown' = IF m.kind = "power" THEN [shown EXCEPT !.power = m.of]
                 ELSE IF m.kind = "curve" THEN [shown EXCEPT !.profile = m.of] ELSE shown
     /\ told' = IF m.kind = "result" THEN [told EXCEPT ![m.command] = m.outcome] ELSE told
  /\ UNCHANGED <<env, client, tasks, carried, quit, last>>

(* The loop returns: the pollers are aborted, and the runtime drops the client,
   the channel and the tasks that wait.  A call that was sent is on its way. *)
Quit ==
  /\ ~ quit
  /\ quit' = TRUE
  /\ proxy' = "none" /\ inbox' = << >>
  /\ fast' = "asleep" /\ medium' = "asleep"
  /\ \/ request = "sent" /\ queue' = <<Holder>> /\ UNCHANGED <<request, reply>>
     \/ request # "sent" /\ queue' = << >> /\ request' = "none" /\ reply' = Unknown
  /\ UNCHANGED <<env, command, carried, status, shown, told, last>>

-----------------------------------------------------------------------------
Next(broken) ==
  \/ "bus" \in broken /\ BusDown
  \/ "daemon" \in broken /\ DaemonDown
  \/ BusUp \/ DaemonUp \/ SupplyChanges
  \/ Call \/ Serve(broken)
  \/ Fast(broken) \/ Medium
  \/ \E c \in Commands : Press(c) \/ Task(c)
  \/ Handle \/ Quit

Spec == Init /\ [][Next(Faults)]_vars

(* The tasks run on a tokio runtime, whose timers fire and whose mutex serves
   waiters in turn; the daemon answers what reaches it (a handler waits for
   nothing forever, as module Daemon shows).  Nothing obliges the user, the
   supply, or what is down to come up. *)
FairSpec ==
  /\ Spec
  /\ WF_vars(Call \/ Serve(Faults))
  /\ WF_vars(Fast(Faults))
  /\ WF_vars(Medium)
  /\ \A c \in Commands : WF_vars(Task(c))
  /\ WF_vars(Handle)

-----------------------------------------------------------------------------
(* Properties *)

(* Every variable has its type; nobody waits twice for the client, so nobody
   waits for himself; what a poller sends before it sleeps is bounded. *)
TypeOK ==
  /\ bus \in BOOLEAN /\ daemon \in BOOLEAN /\ (daemon => bus)
  /\ source \in Sources /\ reply \in Sources \cup {Unknown}
  /\ proxy \in {"none", "live", "dead"}
  /\ queue \in Seq(Waiters) /\ IsInjective(queue)
  /\ request \in {"none", "sent", "ok", "error"}
  /\ fast \in {"asleep", "asking", "answered", "failed", "connecting"}
  /\ medium \in {"asleep", "cpu", "power", "curve"}
  /\ command \in [Commands -> {"unsent", "spawned", "asking", "ended"}]
  /\ carried \subseteq Commands
  /\ inbox \in Seq(Message)
  /\ status \in {"connected", "disconnected"}
  /\ shown \in [power : Sources \cup {Unknown}, profile : Sources \cup {Unknown}]
  /\ told \in [Commands -> {"nothing", "ok", "error"}]
  /\ quit \in BOOLEAN
  /\ last \in {"ok", "error"}

(* The status will be this once the channel is empty: the last message about it
   says so, or it is so and there is none. *)
Announced(outcome) ==
  LET word == IF outcome = "connected" THEN "restored" ELSE "lost"
      News(i) == inbox[i].kind \in {"lost", "restored"}
  IN  \/ /\ status = outcome
         /\ \A i \in 1 .. Len(inbox) : ~ News(i)
      \/ \E i \in 1 .. Len(inbox) :
           /\ inbox[i].kind = word
           /\ \A j \in i + 1 .. Len(inbox) : ~ News(j)

(* The status bar, once it has caught up, tells how the last connect() ended, and
   "disconnected" from a failed poll until it is tried again: the two messages
   cannot overtake each other, whoever else uses the client and the channel in
   between. *)
StatusIsLastConnect ==
  quit \/ Announced(IF fast = "connecting" \/ last = "error"
                    THEN "disconnected" ELSE "connected")

(* A connection that works while the bar says "disconnected": connect() has failed
   after an error that had another reason than the connection.  The polls
   succeed again, and ConnectionRestored is only sent after an error. *)
Overlooked == last = "error" /\ proxy = "live"

(* From wherever failures have left it: once everything is up and works, the
   TUI is connected, unless that is overlooked, and the dashboard shows the
   supply, which changes no more, and its profile, though the two are read by two
   calls and errors of either are dropped. *)
CatchesUp ==
  <>[][Next({})]_vars /\ <>[](bus /\ daemon)
    => <>[](quit \/ /\ status = "connected" \/ Overlooked
                    /\ shown = [power |-> source, profile |-> source])

(* A bus that is gone for good is shown as such and stays so; while the daemon is
   gone the bar says so again and again, though every connect() to the bus
   succeeds. *)
OutageIsShown ==
  /\ <>[](~ bus) => <>[](quit \/ status = "disconnected")
  /\ <>[](~ daemon) => []<>(quit \/ status = "disconnected")

(* Every command is answered unless the user leaves before, and "ok" means that
   the daemon has carried it out: no poller keeps the client, and no task waits
   forever behind the two. *)
CommandsAnswered ==
  \A c \in Commands :
    command[c] = "spawned" ~>
      \/ quit
      \/ told[c] = "error"
      \/ told[c] = "ok" /\ c \in carried
=============================================================================
