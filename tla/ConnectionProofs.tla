-------------------------- MODULE ConnectionProofs --------------------------
(***************************************************************************)
(* Theorems about Connection, for any commands, faults and changes of the  *)
(* supply.                                                                 *)
(***************************************************************************)
EXTENDS Connection, SequenceTheorems, TLAPS

-----------------------------------------------------------------------------
(* The invariant *)

(* A task is in the queue only while it waits for the client or has it. *)
Waiting ==
  quit \/ \A i \in 1 .. Len(queue) :
    /\ queue[i] = "fast" => fast \in {"asking", "connecting"}
    /\ queue[i] = "medium" => medium # "asleep"
    /\ queue[i] \in Commands => command[queue[i]] = "asking"

(* A call is that of the first in the queue.  The fast poller makes none when it
   is to connect, and an answer to the medium poller tells of the supply. *)
CallOfHolder ==
  /\ request # "none" => queue # << >>
  /\ ~ quit /\ request # "none" /\ queue[1] = "fast" => fast = "asking"
  /\ ~ quit /\ request = "ok" /\ queue[1] = "medium" /\ medium # "cpu" => reply \in Sources

IInv == TypeOK /\ Waiting /\ CallOfHolder

-----------------------------------------------------------------------------
(* Queues *)

(* Who is not in a queue can join it. *)
LEMMA Joining ==
  ASSUME NEW q \in Seq(Waiters), IsInjective(q), NEW w \in Waiters,
         \A i \in 1 .. Len(q) : q[i] # w
  PROVE  /\ Append(q, w) \in Seq(Waiters) /\ IsInjective(Append(q, w))
         /\ Len(Append(q, w)) = Len(q) + 1 /\ Append(q, w) # << >>
         /\ Append(q, w)[Len(q) + 1] = w
         /\ \A i \in 1 .. Len(q) : Append(q, w)[i] = q[i]
         /\ q # << >> => Append(q, w)[1] = q[1]
<1>1. /\ Append(q, w) \in Seq(Waiters)
      /\ Len(Append(q, w)) = Len(q) + 1
      /\ \A i \in 1 .. Len(q) : Append(q, w)[i] = q[i]
      /\ Append(q, w)[Len(q) + 1] = w
      /\ Len(q) \in Nat
  BY AppendProperties, LenProperties
<1>2. DOMAIN Append(q, w) = 1 .. Len(q) + 1 /\ DOMAIN q = 1 .. Len(q)
  BY <1>1, LenProperties
<1>3. IsInjective(Append(q, w))
  <2>1. SUFFICES ASSUME NEW a \in 1 .. Len(q) + 1, NEW b \in 1 .. Len(q) + 1,
                        Append(q, w)[a] = Append(q, w)[b]
                 PROVE  a = b
    BY <1>2 DEF IsInjective
  <2>2. \A c \in 1 .. Len(q) + 1 : c \in 1 .. Len(q) \/ c = Len(q) + 1 BY <1>1
  <2>3. CASE a \in 1 .. Len(q) /\ b \in 1 .. Len(q)
    BY <1>1, <1>2, <2>1, <2>3 DEF IsInjective
  <2>4. CASE a \in 1 .. Len(q) /\ b = Len(q) + 1 BY <1>1, <2>1, <2>4
  <2>5. CASE a = Len(q) + 1 /\ b \in 1 .. Len(q) BY <1>1, <2>1, <2>5
  <2>q. QED BY <2>2, <2>3, <2>4, <2>5
<1>4. Append(q, w) # << >>
  <2>1. Len(Append(q, w)) # 0 BY <1>1
  <2>q. QED BY <2>1
<1>5. q # << >> => 1 \in 1 .. Len(q) BY <1>1, EmptySeq
<1>q. QED BY <1>1, <1>3, <1>4, <1>5

(* Who has been first in a queue and leaves it is in it no more. *)
LEMMA Leaving ==
  ASSUME NEW q \in Seq(Waiters), IsInjective(q), q # << >>
  PROVE  /\ Tail(q) \in Seq(Waiters) /\ IsInjective(Tail(q))
         /\ Head(q) = q[1] /\ q[1] \in Waiters
         /\ \A i \in 1 .. Len(Tail(q)) :
              /\ i + 1 \in 1 .. Len(q) /\ Tail(q)[i] = q[i + 1]
              /\ Tail(q)[i] # q[1]
<1>1. /\ Tail(q) \in Seq(Waiters)
      /\ Len(Tail(q)) = Len(q) - 1
      /\ \A i \in 1 .. Len(Tail(q)) : Tail(q)[i] = q[i + 1]
      /\ Head(q) = q[1] /\ Head(q) \in Waiters
  BY HeadTailProperties
<1>2. Len(q) \in Nat /\ Len(q) # 0 /\ DOMAIN q = 1 .. Len(q)
  BY EmptySeq, LenProperties
<1>3. \A i \in 1 .. Len(Tail(q)) : i + 1 \in 1 .. Len(q) /\ i + 1 # 1 /\ 1 \in 1 .. Len(q)
  BY <1>1, <1>2
<1>4. DOMAIN Tail(q) = 1 .. Len(Tail(q)) BY <1>1, LenProperties
<1>5. IsInjective(Tail(q))
  <2>1. SUFFICES ASSUME NEW a \in 1 .. Len(Tail(q)), NEW b \in 1 .. Len(Tail(q)),
                        Tail(q)[a] = Tail(q)[b]
                 PROVE  a = b
    BY <1>4 DEF IsInjective
  <2>2. q[a + 1] = q[b + 1] BY <1>1, <2>1
  <2>3. a + 1 = b + 1 BY <1>2, <1>3, <2>2 DEF IsInjective
  <2>q. QED BY <1>1, <1>2, <2>3
<1>6. \A i \in 1 .. Len(Tail(q)) : Tail(q)[i] # q[1]
  BY <1>1, <1>2, <1>3 DEF IsInjective
<1>q. QED BY <1>1, <1>3, <1>5, <1>6

-----------------------------------------------------------------------------
(* The steps *)

LEMMA InitInv == Init => IInv
<1>1. SUFFICES ASSUME Init PROVE IInv OBVIOUS
<1>2. IsInjective(queue) BY <1>1 DEF Init, IsInjective
<1>3. shown \in [power : Sources \cup {Unknown}, profile : Sources \cup {Unknown}]
  BY <1>1 DEF Init
<1>4. source \in Sources BY <1>1, ChangesAssumption DEF Init, Sources
<1>5. /\ bus \in BOOLEAN /\ daemon \in BOOLEAN /\ (daemon => bus)
      /\ proxy \in {"none", "live"} /\ status \in {"connected", "disconnected"}
      /\ last \in {"ok", "error"}
  <2>1. PICK ok \in {bus} \cup (IF "connect" \in Faults THEN {FALSE} ELSE {}) :
          /\ proxy = IF ok THEN "live" ELSE "none"
          /\ status = IF ok THEN "connected" ELSE "disconnected"
          /\ last = IF ok THEN "ok" ELSE "error"
    BY <1>1 DEF Init
  <2>2. bus \in BOOLEAN /\ (daemon = bus \/ daemon = FALSE) BY <1>1 DEF Init
  <2>3. daemon \in BOOLEAN
    <3>1. CASE daemon = bus BY <2>2, <3>1
    <3>2. CASE daemon = FALSE BY <3>2
    <3>q. QED BY <2>2, <3>1, <3>2
  <2>4. daemon => bus
    <3>1. CASE daemon = bus BY <3>1
    <3>2. CASE daemon = FALSE BY <3>2
    <3>q. QED BY <2>2, <3>1, <3>2
  <2>q. QED BY <2>1, <2>2, <2>3, <2>4
<1>6. queue \in Seq(Waiters) /\ inbox \in Seq(Message) BY <1>1 DEF Init
<1>7. /\ command \in [Commands -> {"unsent", "spawned", "asking", "ended"}]
      /\ told \in [Commands -> {"nothing", "ok", "error"}]
  BY <1>1 DEF Init
<1>8. TypeOK BY <1>1, <1>2, <1>3, <1>4, <1>5, <1>6, <1>7 DEF Init, TypeOK
<1>9. Waiting /\ CallOfHolder BY <1>1 DEF Init, Waiting, CallOfHolder
<1>q. QED BY <1>9, <1>8 DEF IInv

(* The first in the queue, as the other actions see him. *)
LEMMA HolderIsFirst ==
  ASSUME TypeOK, queue # << >>
  PROVE  Holder = queue[1] /\ 1 \in 1 .. Len(queue) /\ Holder \in Waiters
  BY HeadTailProperties, EmptySeq, LenProperties DEF TypeOK, Holder

(* What happens around the TUI. *)
LEMMA AroundKeepsInv ==
  ASSUME IInv, BusDown \/ DaemonDown \/ BusUp \/ DaemonUp \/ SupplyChanges
  PROVE  IInv'
<1>1. /\ UNCHANGED queue /\ UNCHANGED tasks /\ UNCHANGED carried
      /\ UNCHANGED inbox /\ UNCHANGED screen /\ UNCHANGED last
  BY DEF BusDown, DaemonDown, BusUp, DaemonUp, SupplyChanges, client
<1>2. proxy' \in {proxy, "dead"}
  BY DEF BusDown, DaemonDown, BusUp, DaemonUp, SupplyChanges, client
<1>3. \/ request' = request /\ reply' = reply
      \/ request # "none" /\ request' = "error" /\ reply' = Unknown
  <2>1. CASE Interrupted BY <2>1 DEF Interrupted
  <2>2. CASE UNCHANGED <<request, reply>> BY <2>2
  <2>q. QED BY <2>1, <2>2 DEF BusDown, DaemonDown, BusUp, DaemonUp, SupplyChanges, client
<1>4. bus' \in BOOLEAN /\ daemon' \in BOOLEAN /\ (daemon' => bus')
  <2>1. bus \in BOOLEAN /\ daemon \in BOOLEAN /\ (daemon => bus) BY DEF IInv, TypeOK
  <2>2. CASE BusDown BY <2>2 DEF BusDown
  <2>3. CASE DaemonDown BY <2>1, <2>3 DEF DaemonDown
  <2>4. CASE BusUp BY <2>1, <2>4 DEF BusUp
  <2>5. CASE DaemonUp BY <2>1, <2>5 DEF DaemonUp
  <2>6. CASE SupplyChanges BY <2>1, <2>6 DEF SupplyChanges
  <2>q. QED BY <2>2, <2>3, <2>4, <2>5, <2>6
<1>5. source' \in Sources
  <2>1. CASE SupplyChanges
    BY <2>1, ChangesAssumption DEF SupplyChanges, Sources
  <2>2. CASE UNCHANGED source BY <2>2 DEF IInv, TypeOK
  <2>q. QED BY <2>1, <2>2 DEF BusDown, DaemonDown, BusUp, DaemonUp
<1>6. TypeOK' BY <1>1, <1>2, <1>3, <1>4, <1>5 DEF IInv, TypeOK, tasks, screen
<1>7. Waiting' BY <1>1, <1>2, <1>3 DEF IInv, Waiting, tasks, screen
<1>8. CallOfHolder' BY <1>1, <1>2, <1>3 DEF IInv, CallOfHolder, tasks, screen
<1>q. QED BY <1>6, <1>7, <1>8 DEF IInv

LEMMA CallKeepsInv ==
  ASSUME IInv, Call
  PROVE  IInv'
<1>1. Holder = queue[1] BY HolderIsFirst DEF IInv, Call
<1>2. TypeOK' BY DEF IInv, TypeOK, Call, env, tasks, screen
<1>3. Waiting' BY DEF IInv, Waiting, Call, tasks, screen
<1>4. ~ quit /\ queue[1] = "fast" => fast = "asking"
  <2>1. queue # << >> /\ ~ quit BY DEF Call
  <2>2. 1 \in 1 .. Len(queue) BY <2>1, HolderIsFirst DEF IInv
  <2>3. queue[1] = "fast" => fast \in {"asking", "connecting"}
    BY <2>1, <2>2 DEF IInv, Waiting
  <2>q. QED BY <1>1, <2>3 DEF Call
<1>5. CallOfHolder' BY <1>4 DEF CallOfHolder, Call, tasks, screen
<1>q. QED BY <1>2, <1>3, <1>5 DEF IInv

LEMMA ServeKeepsInv ==
  ASSUME IInv, Serve(Faults)
  PROVE  IInv'
<1>1. request = "sent" /\ queue # << >> BY DEF IInv, CallOfHolder, Serve
<1>2. Holder = queue[1] /\ Holder \in Waiters BY <1>1, HolderIsFirst DEF IInv
<1>3. TypeOK' BY <1>2 DEF IInv, TypeOK, Serve, env, tasks, screen
<1>4. Waiting' BY DEF IInv, Waiting, Serve, tasks, screen
<1>5. CallOfHolder'
  <2>1. UNCHANGED <<queue, quit, fast, medium, source>> BY DEF Serve, tasks, screen, env
  <2>2. request' = "ok" /\ Holder = "medium" /\ medium # "cpu" => reply' \in Sources
    BY DEF IInv, TypeOK, Serve
  <2>q. QED BY <1>1, <1>2, <2>1, <2>2 DEF IInv, CallOfHolder
<1>q. QED BY <1>3, <1>4, <1>5 DEF IInv

(* Who is not in the queue joins it. *)
LEMMA JoinKeeps ==
  ASSUME IInv, ~ quit, NEW w \in Waiters, \A i \in 1 .. Len(queue) : queue[i] # w,
         queue' = Append(queue, w), UNCHANGED <<request, reply, quit>>,
         IF w = "fast" THEN fast' \in {"asking", "connecting"} ELSE fast' = fast,
         IF w = "medium" THEN medium' # "asleep" ELSE medium' = medium,
         w \in Commands => command'[w] = "asking",
         \A c \in Commands : c # w => command'[c] = command[c]
  PROVE  Waiting' /\ CallOfHolder' /\ queue' \in Seq(Waiters) /\ IsInjective(queue')
<1>1. queue \in Seq(Waiters) /\ IsInjective(queue) BY DEF IInv, TypeOK
<1>2. /\ queue' \in Seq(Waiters) /\ IsInjective(queue')
      /\ Len(queue') = Len(queue) + 1 /\ queue' # << >>
      /\ queue'[Len(queue) + 1] = w
      /\ \A i \in 1 .. Len(queue) : queue'[i] = queue[i]
      /\ queue # << >> => queue'[1] = queue[1]
  BY <1>1, Joining
<1>3. Waiting'
  <2>1. SUFFICES ASSUME NEW i \in 1 .. Len(queue')
                 PROVE  /\ queue'[i] = "fast" => fast' \in {"asking", "connecting"}
                        /\ queue'[i] = "medium" => medium' # "asleep"
                        /\ queue'[i] \in Commands => command'[queue'[i]] = "asking"
    BY DEF Waiting
  <2>2. Len(queue) \in Nat BY <1>1, LenProperties
  <2>3. i \in 1 .. Len(queue) \/ i = Len(queue) + 1 BY <1>2, <2>2
  <2>4. CASE i \in 1 .. Len(queue)
    <3>1. queue'[i] = queue[i] /\ queue[i] # w BY <1>2, <2>4
    <3>2. /\ queue[i] = "fast" => fast \in {"asking", "connecting"}
          /\ queue[i] = "medium" => medium # "asleep"
          /\ queue[i] \in Commands => command[queue[i]] = "asking"
      BY <2>4 DEF IInv, Waiting
    <3>q. QED BY <3>1, <3>2
  <2>5. CASE i = Len(queue) + 1 BY <1>2, <2>5
  <2>q. QED BY <2>3, <2>4, <2>5
<1>4. CallOfHolder'
  <2>1. queue # << >> => queue[1] # w BY <1>1, EmptySeq, LenProperties
  <2>q. QED BY <1>2, <2>1 DEF IInv, CallOfHolder
<1>q. QED BY <1>2, <1>3, <1>4

(* The first in the queue leaves it. *)
LEMMA LeaveKeeps ==
  ASSUME IInv, ~ quit, queue # << >>, queue' = Tail(queue), request' = "none",
         UNCHANGED quit,
         Holder # "fast" => fast' = fast,
         Holder # "medium" => medium' = medium,
         \A c \in Commands : c # Holder => command'[c] = command[c]
  PROVE  Waiting' /\ CallOfHolder' /\ queue' \in Seq(Waiters) /\ IsInjective(queue')
<1>1. queue \in Seq(Waiters) /\ IsInjective(queue) BY DEF IInv, TypeOK
<1>2. /\ queue' \in Seq(Waiters) /\ IsInjective(queue')
      /\ \A i \in 1 .. Len(queue') :
           i + 1 \in 1 .. Len(queue) /\ queue'[i] = queue[i + 1] /\ queue'[i] # Holder
  BY <1>1, Leaving DEF Holder
<1>3. Waiting'
  <2>1. SUFFICES ASSUME NEW i \in 1 .. Len(queue')
                 PROVE  /\ queue'[i] = "fast" => fast' \in {"asking", "connecting"}
                        /\ queue'[i] = "medium" => medium' # "asleep"
                        /\ queue'[i] \in Commands => command'[queue'[i]] = "asking"
    BY DEF Waiting
  <2>2. queue'[i] = queue[i + 1] /\ queue'[i] # Holder /\ i + 1 \in 1 .. Len(queue) BY <1>2
  <2>3. /\ queue[i + 1] = "fast" => fast \in {"asking", "connecting"}
        /\ queue[i + 1] = "medium" => medium # "asleep"
        /\ queue[i + 1] \in Commands => command[queue[i + 1]] = "asking"
    BY <2>2 DEF IInv, Waiting
  <2>q. QED BY <2>2, <2>3
<1>4. CallOfHolder' BY DEF CallOfHolder
<1>q. QED BY <1>2, <1>3, <1>4

LEMMA FastWakesKeepsInv ==
  ASSUME IInv, FastWakes
  PROVE  IInv'
<1>1. \A i \in 1 .. Len(queue) : queue[i] # "fast" BY DEF IInv, Waiting, FastWakes
<1>2. Waiting' /\ CallOfHolder' /\ queue' \in Seq(Waiters) /\ IsInjective(queue')
  <2>1. "fast" \in Waiters /\ "fast" \notin Commands
    BY CommandsAssumption DEF Waiters, Pollers
  <2>2. /\ ~ quit /\ queue' = Append(queue, "fast") /\ fast' = "asking"
        /\ UNCHANGED <<request, reply, quit, medium, command>>
    BY DEF FastWakes, screen
  <2>q. QED BY <1>1, <2>1, <2>2, JoinKeeps
<1>3. TypeOK' BY <1>2 DEF IInv, TypeOK, FastWakes, env, screen
<1>q. QED BY <1>2, <1>3 DEF IInv

LEMMA FastAnsweredKeepsInv ==
  ASSUME IInv, FastAnswered
  PROVE  IInv'
<1>1. Waiting' /\ CallOfHolder' /\ queue' \in Seq(Waiters) /\ IsInjective(queue')
  <2>1. /\ ~ quit /\ queue # << >> /\ queue' = Tail(queue) /\ request' = "none"
        /\ UNCHANGED <<quit, medium, command>> /\ Holder = "fast"
    BY DEF FastAnswered, Answered, Release, screen
  <2>q. QED BY <2>1, LeaveKeeps
<1>2. TypeOK' BY <1>1 DEF IInv, TypeOK, FastAnswered, Release, env, screen
<1>q. QED BY <1>1, <1>2 DEF IInv

(* What is posted is a message. *)
LEMMA Posting ==
  ASSUME TypeOK, NEW m \in Message, Post(m)
  PROVE  inbox' \in Seq(Message)
BY AppendProperties DEF TypeOK, Post

LEMMA FastReportsKeepsInv ==
  ASSUME IInv, FastReports
  PROVE  IInv'
<1>1. CASE fast = "answered"
  <2>1. UNCHANGED <<queue, inbox, request, reply, medium, command, screen>> /\ fast' = "asleep"
    BY <1>1 DEF FastReports
  <2>2. TypeOK' BY <2>1 DEF IInv, TypeOK, FastReports, env, screen
  <2>3. Waiting' BY <1>1, <2>1 DEF IInv, Waiting, screen
  <2>4. CallOfHolder' BY <1>1, <2>1 DEF IInv, CallOfHolder, screen
  <2>q. QED BY <2>2, <2>3, <2>4 DEF IInv
<1>2. CASE fast # "answered"
  <2>1. /\ ~ quit /\ fast = "failed" /\ fast' = "connecting" /\ Post([kind |-> "lost"])
        /\ queue' = Append(queue, "fast")
        /\ UNCHANGED <<request, reply, medium, command, quit>>
    BY <1>2 DEF FastReports, screen
  <2>2. \A i \in 1 .. Len(queue) : queue[i] # "fast" BY <2>1 DEF IInv, Waiting
  <2>3. Waiting' /\ CallOfHolder' /\ queue' \in Seq(Waiters) /\ IsInjective(queue')
    <3>1. "fast" \in Waiters /\ "fast" \notin Commands
      BY CommandsAssumption DEF Waiters, Pollers
    <3>q. QED BY <2>1, <2>2, <3>1, JoinKeeps
  <2>4. inbox' \in Seq(Message)
    <3>1. [kind |-> "lost"] \in Message BY DEF Message
    <3>q. QED BY <2>1, <3>1, Posting DEF IInv
  <2>5. TypeOK' BY <2>1, <2>3, <2>4 DEF IInv, TypeOK, FastReports, env, screen
  <2>q. QED BY <2>3, <2>5 DEF IInv
<1>q. QED BY <1>1, <1>2

LEMMA ConnectsKeepsInv ==
  ASSUME IInv, Connects(Faults)
  PROVE  IInv'
<1>1. /\ ~ quit /\ queue # << >> /\ Holder = "fast" /\ fast = "connecting"
      /\ queue' = Tail(queue) /\ fast' = "asleep"
      /\ UNCHANGED <<quit, request, reply, medium, command>>
  BY DEF Connects, screen
<1>2. request = "none" BY <1>1, HolderIsFirst DEF IInv, CallOfHolder
<1>3. Waiting' /\ CallOfHolder' /\ queue' \in Seq(Waiters) /\ IsInjective(queue')
  BY <1>1, <1>2, LeaveKeeps
<1>4. /\ inbox' \in Seq(Message) /\ last' \in {"ok", "error"}
      /\ proxy' \in {proxy, "live"}
  <2>1. PICK ok \in {bus} \cup (IF "connect" \in Faults THEN {FALSE} ELSE {}) :
          /\ proxy' = IF ok THEN "live" ELSE proxy
          /\ last' = IF ok THEN "ok" ELSE "error"
          /\ IF ok THEN Post([kind |-> "restored"]) ELSE UNCHANGED inbox
    BY DEF Connects
  <2>2. [kind |-> "restored"] \in Message BY DEF Message
  <2>3. Post([kind |-> "restored"]) => inbox' \in Seq(Message) BY <2>2, Posting DEF IInv
  <2>4. UNCHANGED inbox => inbox' \in Seq(Message) BY DEF IInv, TypeOK
  <2>5. inbox' \in Seq(Message) BY <2>1, <2>3, <2>4
  <2>q. QED BY <2>1, <2>5
<1>5. TypeOK' BY <1>1, <1>3, <1>4 DEF IInv, TypeOK, Connects, env, screen
<1>q. QED BY <1>3, <1>5 DEF IInv

LEMMA MediumWakesKeepsInv ==
  ASSUME IInv, MediumWakes
  PROVE  IInv'
<1>1. \A i \in 1 .. Len(queue) : queue[i] # "medium" BY DEF IInv, Waiting, MediumWakes
<1>2. Waiting' /\ CallOfHolder' /\ queue' \in Seq(Waiters) /\ IsInjective(queue')
  <2>1. "medium" \in Waiters /\ "medium" \notin Commands
    BY CommandsAssumption DEF Waiters, Pollers
  <2>2. /\ ~ quit /\ queue' = Append(queue, "medium") /\ medium' = "cpu"
        /\ UNCHANGED <<request, reply, quit, fast, command>>
    BY DEF MediumWakes, screen
  <2>q. QED BY <1>1, <2>1, <2>2, JoinKeeps
<1>3. TypeOK' BY <1>2 DEF IInv, TypeOK, MediumWakes, env, screen
<1>q. QED BY <1>2, <1>3 DEF IInv

(* What the medium poller posts tells of a supply. *)
LEMMA MediumPosts ==
  ASSUME IInv, MediumAnswered, request = "ok", medium # "cpu"
  PROVE  [kind |-> medium, of |-> reply] \in Message /\ medium \in {"power", "curve"}
<1>1. /\ ~ quit /\ queue # << >> /\ Holder = "medium" BY DEF MediumAnswered, Answered
<1>2. Holder = queue[1] /\ 1 \in 1 .. Len(queue) BY <1>1, HolderIsFirst DEF IInv
<1>3. medium \in {"power", "curve"} BY <1>1, <1>2 DEF IInv, TypeOK, Waiting
<1>4. reply \in Sources BY <1>1, <1>2 DEF IInv, CallOfHolder
<1>q. QED BY <1>3, <1>4 DEF Message

LEMMA MediumAnsweredKeepsInv ==
  ASSUME IInv, MediumAnswered
  PROVE  IInv'
<1>1. /\ ~ quit /\ queue # << >> /\ Holder = "medium" /\ request \in {"ok", "error"}
      /\ request' = "none" /\ reply' = Unknown
      /\ UNCHANGED <<quit, fast, command>>
  BY DEF MediumAnswered, Answered, screen
<1>2. Holder = queue[1] /\ 1 \in 1 .. Len(queue) BY <1>1, HolderIsFirst DEF IInv
<1>3. inbox' \in Seq(Message)
  <2>1. CASE request = "ok" /\ medium # "cpu"
    <3>1. [kind |-> medium, of |-> reply] \in Message BY <2>1, MediumPosts
    <3>2. Post([kind |-> medium, of |-> reply]) BY <2>1 DEF MediumAnswered
    <3>q. QED BY <3>1, <3>2, Posting DEF IInv
  <2>2. CASE ~ (request = "ok" /\ medium # "cpu")
    BY <2>2 DEF MediumAnswered, IInv, TypeOK
  <2>q. QED BY <2>1, <2>2
<1>4. Waiting' /\ CallOfHolder' /\ queue' \in Seq(Waiters) /\ IsInjective(queue')
  <2>1. CASE medium = "curve"
    <3>1. queue' = Tail(queue) BY <2>1 DEF MediumAnswered
    <3>q. QED BY <1>1, <3>1, LeaveKeeps
  <2>2. CASE medium # "curve"
    <3> DEFINE q == Tail(queue)
    <3>1. queue' = Append(q, "medium") /\ medium' # "asleep" BY <2>2 DEF MediumAnswered
    <3>2. /\ q \in Seq(Waiters) /\ IsInjective(q) /\ queue[1] \in Waiters
          /\ \A i \in 1 .. Len(q) :
               i + 1 \in 1 .. Len(queue) /\ q[i] = queue[i + 1] /\ q[i] # "medium"
      BY <1>1, <1>2, Leaving DEF IInv, TypeOK
    <3>3. "medium" \notin Commands BY CommandsAssumption
    <3>4. \A i \in 1 .. Len(q) : /\ q[i] # "medium"
                                 /\ q[i] = "fast" => fast \in {"asking", "connecting"}
                                 /\ q[i] \in Commands => command[q[i]] = "asking"
      BY <1>1, <3>2 DEF IInv, Waiting
    <3> HIDE DEF q
    <3>5. /\ queue' \in Seq(Waiters) /\ IsInjective(queue')
          /\ Len(queue') = Len(q) + 1 /\ Len(q) \in Nat
          /\ queue'[Len(q) + 1] = "medium"
          /\ \A i \in 1 .. Len(q) : queue'[i] = q[i]
      BY <1>1, <1>2, <3>1, <3>2, Joining, LenProperties
    <3>6. Waiting'
      <4>1. SUFFICES ASSUME NEW i \in 1 .. Len(queue')
                     PROVE  /\ queue'[i] = "fast" => fast' \in {"asking", "connecting"}
                            /\ queue'[i] = "medium" => medium' # "asleep"
                            /\ queue'[i] \in Commands => command'[queue'[i]] = "asking"
        BY DEF Waiting
      <4>2. i \in 1 .. Len(q) \/ i = Len(q) + 1 BY <3>5
      <4>3. CASE i \in 1 .. Len(q) BY <1>1, <3>1, <3>4, <3>5, <4>3
      <4>4. CASE i = Len(q) + 1 BY <3>1, <3>3, <3>5, <4>4
      <4>q. QED BY <4>2, <4>3, <4>4
    <3>7. CallOfHolder' BY <1>1 DEF CallOfHolder
    <3>q. QED BY <3>5, <3>6, <3>7
  <2>q. QED BY <2>1, <2>2
<1>5. medium' \in {"asleep", "cpu", "power", "curve"} BY DEF MediumAnswered
<1>6. TypeOK' BY <1>1, <1>3, <1>4, <1>5 DEF IInv, TypeOK, MediumAnswered, env, screen
<1>q. QED BY <1>4, <1>6 DEF IInv

LEMMA PressKeepsInv ==
  ASSUME IInv, NEW c \in Commands, Press(c)
  PROVE  IInv'
<1>1. TypeOK' BY DEF IInv, TypeOK, Press, env, client, screen
<1>2. Waiting'
  <2>1. /\ UNCHANGED <<queue, fast, medium, quit>> /\ command[c] = "unsent"
        /\ command' = [command EXCEPT ![c] = "spawned"]
        /\ command \in [Commands -> {"unsent", "spawned", "asking", "ended"}]
    BY DEF IInv, TypeOK, Press, client, screen
  <2>q. QED BY <2>1 DEF IInv, Waiting
<1>3. CallOfHolder' BY DEF IInv, CallOfHolder, Press, client, screen
<1>q. QED BY <1>1, <1>2, <1>3 DEF IInv

LEMMA StartsKeepsInv ==
  ASSUME IInv, NEW c \in Commands, Starts(c)
  PROVE  IInv'
<1>1. /\ ~ quit /\ command[c] = "spawned" /\ queue' = Append(queue, c)
      /\ command' = [command EXCEPT ![c] = "asking"]
      /\ UNCHANGED <<request, reply, quit, fast, medium>>
      /\ command \in [Commands -> {"unsent", "spawned", "asking", "ended"}]
  BY DEF IInv, TypeOK, Starts, screen
<1>2. c \in Waiters /\ c # "fast" /\ c # "medium"
  BY CommandsAssumption DEF Waiters
<1>3. \A i \in 1 .. Len(queue) : queue[i] # c BY <1>1 DEF IInv, Waiting
<1>4. command'[c] = "asking" /\ \A d \in Commands : d # c => command'[d] = command[d]
  BY <1>1
<1>5. Waiting' /\ CallOfHolder' /\ queue' \in Seq(Waiters) /\ IsInjective(queue')
  BY <1>1, <1>2, <1>3, <1>4, JoinKeeps
<1>6. TypeOK' BY <1>1, <1>5 DEF IInv, TypeOK, Starts, env, screen
<1>q. QED BY <1>5, <1>6 DEF IInv

LEMMA EndsKeepsInv ==
  ASSUME IInv, NEW c \in Commands, Ends(c)
  PROVE  IInv'
<1>1. /\ ~ quit /\ queue # << >> /\ Holder = c /\ request \in {"ok", "error"}
      /\ queue' = Tail(queue) /\ request' = "none" /\ reply' = Unknown
      /\ Post([kind |-> "result", command |-> c, outcome |-> request])
      /\ command' = [command EXCEPT ![c] = "ended"]
      /\ UNCHANGED <<quit, fast, medium>>
      /\ command \in [Commands -> {"unsent", "spawned", "asking", "ended"}]
  BY DEF IInv, TypeOK, Ends, Answered, Release, screen
<1>2. c # "fast" /\ c # "medium" BY CommandsAssumption
<1>3. \A d \in Commands : d # c => command'[d] = command[d] BY <1>1
<1>4. Waiting' /\ CallOfHolder' /\ queue' \in Seq(Waiters) /\ IsInjective(queue')
  BY <1>1, <1>2, <1>3, LeaveKeeps
<1>5. inbox' \in Seq(Message)
  <2>1. [kind |-> "result", command |-> c, outcome |-> request] \in Message
    BY <1>1 DEF Message
  <2>q. QED BY <1>1, <2>1, Posting DEF IInv
<1>6. TypeOK' BY <1>1, <1>4, <1>5 DEF IInv, TypeOK, Ends, env, screen
<1>q. QED BY <1>4, <1>6 DEF IInv

LEMMA HandleKeepsInv ==
  ASSUME IInv, Handle
  PROVE  IInv'
<1> DEFINE m == Head(inbox)
<1>1. m \in Message /\ inbox' \in Seq(Message)
  BY HeadTailProperties DEF IInv, TypeOK, Handle
<1>2. \/ m.kind \in {"lost", "restored"}
      \/ m.kind \in {"power", "curve"} /\ m.of \in Sources
      \/ m.kind = "result" /\ m.command \in Commands /\ m.outcome \in {"ok", "error"}
  BY <1>1 DEF Message
<1>3. status' \in {"connected", "disconnected"} BY DEF IInv, TypeOK, Handle
<1>4. shown' \in [power : Sources \cup {Unknown}, profile : Sources \cup {Unknown}]
  <2>1. shown' = IF m.kind = "power" THEN [shown EXCEPT !.power = m.of]
                 ELSE IF m.kind = "curve" THEN [shown EXCEPT !.profile = m.of] ELSE shown
    BY DEF Handle
  <2>2. shown \in [power : Sources \cup {Unknown}, profile : Sources \cup {Unknown}]
    BY DEF IInv, TypeOK
  <2> HIDE DEF m
  <2>q. QED BY <1>2, <2>1, <2>2
<1>5. told' \in [Commands -> {"nothing", "ok", "error"}]
  <2>1. told' = IF m.kind = "result" THEN [told EXCEPT ![m.command] = m.outcome] ELSE told
    BY DEF Handle
  <2>2. told \in [Commands -> {"nothing", "ok", "error"}] BY DEF IInv, TypeOK
  <2> HIDE DEF m
  <2>q. QED BY <1>2, <2>1, <2>2
<1>6. TypeOK' BY <1>1, <1>3, <1>4, <1>5 DEF IInv, TypeOK, Handle, env, client, tasks
<1>7. Waiting' BY DEF IInv, Waiting, Handle, client, tasks
<1>8. CallOfHolder' BY DEF IInv, CallOfHolder, Handle, client, tasks
<1>q. QED BY <1>6, <1>7, <1>8 DEF IInv

LEMMA QuitKeepsInv ==
  ASSUME IInv, Quit
  PROVE  IInv'
<1>1. quit' = TRUE BY DEF Quit
<1>2. queue' \in Seq(Waiters) /\ IsInjective(queue') /\ CallOfHolder'
  <2>1. CASE request = "sent"
    <3>1. queue' = <<Holder>> /\ UNCHANGED <<request, reply>> BY <2>1 DEF Quit
    <3>2. Holder \in Waiters BY <2>1, HolderIsFirst DEF IInv, CallOfHolder
    <3>3. queue' # << >> BY <3>1
    <3>q. QED BY <1>1, <3>1, <3>2, <3>3 DEF IsInjective, CallOfHolder
  <2>2. CASE request # "sent"
    <3>1. queue' = << >> /\ request' = "none" BY <2>2 DEF Quit
    <3>q. QED BY <1>1, <3>1 DEF IsInjective, CallOfHolder
  <2>q. QED BY <2>1, <2>2
<1>3. request' \in {"none", "sent", "ok", "error"} /\ reply' \in Sources \cup {Unknown}
  BY DEF IInv, TypeOK, Quit
<1>4. TypeOK' BY <1>1, <1>2, <1>3 DEF IInv, TypeOK, Quit, env
<1>5. Waiting' BY <1>1 DEF Waiting
<1>q. QED BY <1>2, <1>4, <1>5 DEF IInv

LEMMA StepInv == IInv /\ [Next(Faults)]_vars => IInv'
<1>1. SUFFICES ASSUME IInv, [Next(Faults)]_vars PROVE IInv' OBVIOUS
<1>2. CASE BusDown \/ DaemonDown \/ BusUp \/ DaemonUp \/ SupplyChanges
  BY <1>1, <1>2, AroundKeepsInv
<1>3. CASE Call \/ Serve(Faults) BY <1>1, <1>3, CallKeepsInv, ServeKeepsInv
<1>4. CASE Fast(Faults)
  BY <1>1, <1>4, FastWakesKeepsInv, FastAnsweredKeepsInv, FastReportsKeepsInv,
     ConnectsKeepsInv DEF Fast
<1>5. CASE Medium BY <1>1, <1>5, MediumWakesKeepsInv, MediumAnsweredKeepsInv DEF Medium
<1>6. CASE \E c \in Commands : Press(c) \/ Task(c)
  BY <1>1, <1>6, PressKeepsInv, StartsKeepsInv, EndsKeepsInv DEF Task
<1>7. CASE Handle \/ Quit BY <1>1, <1>7, HandleKeepsInv, QuitKeepsInv
<1>8. CASE UNCHANGED vars
  BY <1>1, <1>8 DEF IInv, TypeOK, Waiting, CallOfHolder, vars, env, client, tasks, screen
<1>q. QED BY <1>1, <1>2, <1>3, <1>4, <1>5, <1>6, <1>7, <1>8 DEF Next

(* Every variable keeps its type, and nobody waits for himself at the mutex of the
   client: who asks for it has released it before (TypeOK). *)
THEOREM TypeCorrect == Spec => []TypeOK
<1>1. Spec => []IInv BY InitInv, StepInv, PTL DEF Spec
<1>2. IInv => TypeOK BY DEF IInv
<1>q. QED BY <1>1, <1>2, PTL

-----------------------------------------------------------------------------
(* The status *)

Word(outcome) == IF outcome = "connected" THEN "restored" ELSE "lost"

News(kind) == kind \in {"lost", "restored"}

(* Announced, of any status and channel. *)
Tells(outcome, st, q) ==
  \/ st = outcome /\ \A i \in 1 .. Len(q) : ~ News(q[i].kind)
  \/ \E i \in 1 .. Len(q) :
       q[i].kind = Word(outcome) /\ \A j \in i + 1 .. Len(q) : ~ News(q[j].kind)

Outcomes == {"connected", "disconnected"}

(* Outcome of the last connect(), or the failed poll since. *)
Outcome == IF fast = "connecting" \/ last = "error" THEN "disconnected" ELSE "connected"

LEMMA StatusTells ==
  StatusIsLastConnect <=> (quit \/ Tells(Outcome, status, inbox))
BY DEF StatusIsLastConnect, Announced, Tells, Word, News, Outcome

(* A message that is no news of the connection changes nothing. *)
LEMMA OtherMessage ==
  ASSUME NEW q \in Seq(Message), NEW m \in Message, ~ News(m.kind),
         NEW o \in Outcomes, NEW st, Tells(o, st, q)
  PROVE  Tells(o, st, Append(q, m))
<1> DEFINE p == Append(q, m)
<1>1. /\ Len(q) \in Nat /\ Len(p) = Len(q) + 1 /\ p[Len(q) + 1] = m
      /\ \A i \in 1 .. Len(q) : p[i] = q[i]
  BY AppendProperties, LenProperties
<1> HIDE DEF p
<1>2. \A i \in 1 .. Len(p) : i \in 1 .. Len(q) \/ i = Len(q) + 1 BY <1>1
<1>3. CASE st = o /\ \A i \in 1 .. Len(q) : ~ News(q[i].kind)
  BY <1>1, <1>2, <1>3 DEF Tells
<1>4. CASE \E i \in 1 .. Len(q) :
             q[i].kind = Word(o) /\ \A j \in i + 1 .. Len(q) : ~ News(q[j].kind)
  <2>1. PICK i \in 1 .. Len(q) :
               q[i].kind = Word(o) /\ \A j \in i + 1 .. Len(q) : ~ News(q[j].kind)
    BY <1>4
  <2>2. i \in 1 .. Len(p) /\ p[i].kind = Word(o) BY <1>1, <2>1
  <2>3. ASSUME NEW j \in i + 1 .. Len(p) PROVE ~ News(p[j].kind)
    <3>1. (j \in i + 1 .. Len(q) /\ j \in 1 .. Len(q)) \/ j = Len(q) + 1 BY <1>1
    <3>q. QED BY <1>1, <2>1, <3>1
  <2>q. QED BY <2>2, <2>3 DEF Tells, p
<1>q. QED BY <1>3, <1>4 DEF Tells, p

(* News of the connection is what is told from now on. *)
LEMMA NewsMessage ==
  ASSUME NEW q \in Seq(Message), NEW m \in Message,
         NEW o \in Outcomes, m.kind = Word(o), NEW st
  PROVE  Tells(o, st, Append(q, m))
<1> DEFINE p == Append(q, m)
<1>1. Len(q) \in Nat /\ Len(p) = Len(q) + 1 /\ p[Len(q) + 1] = m
  BY AppendProperties, LenProperties
<1> HIDE DEF p
<1>2. Len(p) \in 1 .. Len(p) /\ p[Len(p)].kind = Word(o) BY <1>1
<1>3. \A j \in Len(p) + 1 .. Len(p) : ~ News(p[j].kind) BY <1>1
<1>q. QED BY <1>2, <1>3 DEF Tells, p

(* The main loop takes the first message, and does as it says. *)
LEMMA FirstMessage ==
  ASSUME NEW q \in Seq(Message), q # << >>, NEW o \in Outcomes, NEW st, NEW st2,
         Tells(o, st, q),
         st2 = IF Head(q).kind = "lost" THEN "disconnected"
               ELSE IF Head(q).kind = "restored" THEN "connected" ELSE st
  PROVE  Tells(o, st2, Tail(q))
<1> DEFINE p == Tail(q)
<1>1. /\ Len(q) \in Nat /\ Len(q) # 0 /\ Len(p) = Len(q) - 1
      /\ \A i \in 1 .. Len(p) : p[i] = q[i + 1]
      /\ Head(q) = q[1]
  BY HeadTailProperties, EmptySeq, LenProperties
<1> HIDE DEF p
<1>2. CASE st = o /\ \A i \in 1 .. Len(q) : ~ News(q[i].kind)
  <2>1. st2 = o BY <1>1, <1>2 DEF News
  <2>2. ASSUME NEW i \in 1 .. Len(p) PROVE ~ News(p[i].kind)
    <3>1. i + 1 \in 1 .. Len(q) BY <1>1
    <3>q. QED BY <1>1, <1>2, <3>1
  <2>q. QED BY <2>1, <2>2 DEF Tells, p
<1>3. ASSUME NEW i \in 1 .. Len(q), q[i].kind = Word(o),
             \A j \in i + 1 .. Len(q) : ~ News(q[j].kind)
      PROVE  Tells(o, st2, p)
  <2>1. CASE i = 1
    <3>1. st2 = o BY <1>1, <1>3, <2>1 DEF Word, Outcomes
    <3>2. ASSUME NEW k \in 1 .. Len(p) PROVE ~ News(p[k].kind)
      <4>1. k + 1 \in i + 1 .. Len(q) BY <1>1, <2>1
      <4>q. QED BY <1>1, <1>3, <4>1
    <3>q. QED BY <3>1, <3>2 DEF Tells
  <2>2. CASE i # 1
    <3>1. i - 1 \in 1 .. Len(p) /\ (i - 1) + 1 = i BY <1>1, <2>2
    <3>2. p[i - 1].kind = Word(o) BY <1>1, <1>3, <3>1
    <3>3. ASSUME NEW j \in (i - 1) + 1 .. Len(p) PROVE ~ News(p[j].kind)
      <4>1. j + 1 \in i + 1 .. Len(q) /\ j \in 1 .. Len(p) BY <1>1
      <4>q. QED BY <1>1, <1>3, <4>1
    <3>q. QED BY <3>1, <3>2, <3>3 DEF Tells
  <2>q. QED BY <2>1, <2>2
<1>q. QED BY <1>2, <1>3 DEF Tells, p

SInv == IInv /\ StatusIsLastConnect

LEMMA InitStatus == Init => StatusIsLastConnect
<1>1. SUFFICES ASSUME Init PROVE StatusIsLastConnect OBVIOUS
<1>2. PICK ok \in {bus} \cup (IF "connect" \in Faults THEN {FALSE} ELSE {}) :
        /\ status = IF ok THEN "connected" ELSE "disconnected"
        /\ last = IF ok THEN "ok" ELSE "error"
  BY <1>1 DEF Init
<1>3. status = Outcome BY <1>1, <1>2 DEF Init, Outcome
<1>4. Len(inbox) = 0 BY <1>1, EmptySeq DEF Init
<1>5. Tells(Outcome, status, inbox) BY <1>3, <1>4 DEF Tells
<1>q. QED BY <1>5, StatusTells

(* The outcome changes only with news. *)
LEMMA SameOutcome ==
  ASSUME IInv, StatusIsLastConnect, UNCHANGED <<quit, status, last>>,
         fast' = "connecting" <=> fast = "connecting",
         \/ UNCHANGED inbox
         \/ \E m \in Message : ~ News(m.kind) /\ Post(m)
  PROVE  StatusIsLastConnect'
<1>1. Outcome' = Outcome /\ Outcome \in Outcomes BY DEF Outcome, Outcomes
<1>2. CASE quit BY <1>2 DEF StatusIsLastConnect
<1>3. CASE ~ quit
  <2>1. Tells(Outcome, status, inbox) BY <1>3, StatusTells
  <2>2. CASE UNCHANGED inbox BY <1>1, <2>1, <2>2, StatusTells DEF StatusIsLastConnect, Announced, Outcome
  <2>3. CASE \E m \in Message : ~ News(m.kind) /\ Post(m)
    <3>1. PICK m \in Message : ~ News(m.kind) /\ Post(m) BY <2>3
    <3>2. Tells(Outcome, status, Append(inbox, m))
      BY <1>1, <2>1, <3>1, OtherMessage DEF IInv, TypeOK
    <3>3. Tells(Outcome', status', inbox') BY <1>1, <3>1, <3>2 DEF Post
    <3>q. QED BY <3>3 DEF StatusIsLastConnect, Announced, Tells, Word, News, Outcome
  <2>q. QED BY <2>2, <2>3
<1>q. QED BY <1>2, <1>3

LEMMA QuietKeepsStatus ==
  ASSUME SInv,
         \/ BusDown \/ DaemonDown \/ BusUp \/ DaemonUp \/ SupplyChanges
         \/ Call \/ Serve(Faults) \/ FastWakes \/ FastAnswered \/ MediumWakes
         \/ \E c \in Commands : Press(c) \/ Starts(c)
  PROVE  StatusIsLastConnect'
<1>1. UNCHANGED <<quit, status, last>> /\ UNCHANGED inbox
  BY DEF BusDown, DaemonDown, BusUp, DaemonUp, SupplyChanges, Call, Serve, FastWakes,
         FastAnswered, MediumWakes, Press, Starts, screen
<1>2. fast' = "connecting" <=> fast = "connecting"
  <2>1. CASE FastWakes BY <2>1 DEF FastWakes
  <2>2. CASE FastAnswered
    <3>1. /\ ~ quit /\ queue # << >> /\ Holder = "fast" /\ request # "none"
          /\ fast' \in {"answered", "failed"}
      BY <2>2 DEF FastAnswered, Answered
    <3>2. fast = "asking" BY <3>1, HolderIsFirst DEF SInv, IInv, CallOfHolder
    <3>q. QED BY <3>1, <3>2
  <2>3. CASE UNCHANGED fast BY <2>3
  <2>q. QED
    BY <2>1, <2>2, <2>3
    DEF BusDown, DaemonDown, BusUp, DaemonUp, SupplyChanges, Call, Serve, MediumWakes,
        Press, Starts, tasks
<1>q. QED BY <1>1, <1>2, SameOutcome DEF SInv

LEMMA FastReportsKeepsStatus ==
  ASSUME SInv, FastReports
  PROVE  StatusIsLastConnect'
<1>1. UNCHANGED <<quit, status, last>> BY DEF FastReports, screen
<1>2. CASE fast = "answered"
  <2>1. UNCHANGED inbox /\ fast' = "asleep" BY <1>2 DEF FastReports
  <2>q. QED BY <1>1, <1>2, <2>1, SameOutcome DEF SInv
<1>3. CASE fast # "answered"
  <2>1. fast' = "connecting" /\ inbox' = Append(inbox, [kind |-> "lost"])
    BY <1>3 DEF FastReports, Post
  <2>2. [kind |-> "lost"] \in Message /\ "disconnected" \in Outcomes
    BY DEF Message, Outcomes
  <2>3. [kind |-> "lost"].kind = Word("disconnected") BY DEF Word
  <2>4. Tells("disconnected", status', inbox')
    BY <2>1, <2>2, <2>3, NewsMessage DEF SInv, IInv, TypeOK
  <2>5. Outcome' = "disconnected" BY <2>1 DEF Outcome
  <2>q. QED BY <2>4, <2>5 DEF StatusIsLastConnect, Announced, Tells, Word, News, Outcome
<1>q. QED BY <1>2, <1>3

LEMMA ConnectsKeepsStatus ==
  ASSUME SInv, Connects(Faults)
  PROVE  StatusIsLastConnect'
<1>1. /\ fast = "connecting" /\ fast' = "asleep" /\ ~ quit
      /\ UNCHANGED <<quit, status>>
  BY DEF Connects, screen
<1>2. PICK ok \in {bus} \cup (IF "connect" \in Faults THEN {FALSE} ELSE {}) :
        /\ last' = IF ok THEN "ok" ELSE "error"
        /\ IF ok THEN Post([kind |-> "restored"]) ELSE UNCHANGED inbox
  BY DEF Connects
<1>3. CASE ok
  <2>1. last' = "ok" /\ inbox' = Append(inbox, [kind |-> "restored"])
    BY <1>2, <1>3 DEF Post
  <2>2. [kind |-> "restored"] \in Message /\ "connected" \in Outcomes
    BY DEF Message, Outcomes
  <2>3. [kind |-> "restored"].kind = Word("connected") BY DEF Word
  <2>4. Tells("connected", status', inbox')
    BY <2>1, <2>2, <2>3, NewsMessage DEF SInv, IInv, TypeOK
  <2>5. Outcome' = "connected" BY <1>1, <2>1 DEF Outcome
  <2>q. QED BY <2>4, <2>5 DEF StatusIsLastConnect, Announced, Tells, Word, News, Outcome
<1>4. CASE ~ ok
  <2>1. last' = "error" /\ UNCHANGED inbox BY <1>2, <1>4
  <2>2. Outcome = "disconnected" /\ Outcome' = "disconnected"
    BY <1>1, <2>1 DEF Outcome
  <2>3. Tells("disconnected", status, inbox) BY <1>1, <2>2, StatusTells DEF SInv
  <2>4. Tells("disconnected", status', inbox') BY <1>1, <2>1, <2>3
  <2>q. QED BY <2>2, <2>4 DEF StatusIsLastConnect, Announced, Tells, Word, News, Outcome
<1>q. QED BY <1>3, <1>4

LEMMA MediumAnsweredKeepsStatus ==
  ASSUME SInv, MediumAnswered
  PROVE  StatusIsLastConnect'
<1>1. UNCHANGED <<quit, status, last, fast>> BY DEF MediumAnswered, screen
<1>2. \/ UNCHANGED inbox
      \/ \E m \in Message : ~ News(m.kind) /\ Post(m)
  <2>1. CASE ~ (request = "ok" /\ medium # "cpu") BY <2>1 DEF MediumAnswered
  <2>2. CASE request = "ok" /\ medium # "cpu"
    <3> DEFINE m == [kind |-> medium, of |-> reply]
    <3>1. Post(m) BY <2>2 DEF MediumAnswered
    <3>2. m \in Message /\ ~ News(m.kind)
      BY <2>2, MediumPosts DEF SInv, News
    <3>q. QED BY <3>1, <3>2
  <2>q. QED BY <2>1, <2>2
<1>q. QED BY <1>1, <1>2, SameOutcome DEF SInv

LEMMA EndsKeepsStatus ==
  ASSUME SInv, NEW c \in Commands, Ends(c)
  PROVE  StatusIsLastConnect'
<1>1. UNCHANGED <<quit, status, last, fast>> BY DEF Ends, screen
<1> DEFINE m == [kind |-> "result", command |-> c, outcome |-> request]
<1>2. Post(m) BY DEF Ends
<1>3. m \in Message /\ ~ News(m.kind) BY DEF Message, News, Ends, Answered
<1>q. QED BY <1>1, <1>2, <1>3, SameOutcome DEF SInv

LEMMA HandleKeepsStatus ==
  ASSUME SInv, Handle
  PROVE  StatusIsLastConnect'
<1>1. /\ ~ quit /\ UNCHANGED <<quit, last, fast>>
      /\ inbox # << >> /\ inbox' = Tail(inbox)
      /\ status' = IF Head(inbox).kind = "lost" THEN "disconnected"
                   ELSE IF Head(inbox).kind = "restored" THEN "connected" ELSE status
  BY DEF Handle, tasks
<1>2. Outcome \in Outcomes /\ Outcome' = Outcome BY <1>1 DEF Outcome, Outcomes
<1>3. Tells(Outcome, status, inbox) BY <1>1, StatusTells DEF SInv
<1>4. Tells(Outcome, status', Tail(inbox))
  BY <1>1, <1>2, <1>3, FirstMessage DEF SInv, IInv, TypeOK
<1>5. Tells(Outcome', status', inbox') BY <1>1, <1>2, <1>4
<1>q. QED BY <1>5 DEF StatusIsLastConnect, Announced, Tells, Word, News, Outcome

LEMMA StepStatus == SInv /\ [Next(Faults)]_vars => SInv'
<1>1. SUFFICES ASSUME SInv, [Next(Faults)]_vars PROVE StatusIsLastConnect'
  BY StepInv DEF SInv
<1>2. CASE \/ BusDown \/ DaemonDown \/ BusUp \/ DaemonUp \/ SupplyChanges
           \/ Call \/ Serve(Faults) \/ FastWakes \/ FastAnswered \/ MediumWakes
           \/ \E c \in Commands : Press(c) \/ Starts(c)
  BY <1>1, <1>2, QuietKeepsStatus
<1>3. CASE FastReports \/ Connects(Faults)
  BY <1>1, <1>3, FastReportsKeepsStatus, ConnectsKeepsStatus
<1>4. CASE MediumAnswered BY <1>1, <1>4, MediumAnsweredKeepsStatus
<1>5. CASE \E c \in Commands : Ends(c) BY <1>1, <1>5, EndsKeepsStatus
<1>6. CASE Handle BY <1>1, <1>6, HandleKeepsStatus
<1>7. CASE Quit BY <1>7 DEF Quit, StatusIsLastConnect
<1>8. CASE UNCHANGED vars
  BY <1>1, <1>8 DEF SInv, StatusIsLastConnect, Announced, vars, tasks, screen
<1>q. QED
  BY <1>1, <1>2, <1>3, <1>4, <1>5, <1>6, <1>7, <1>8 DEF Next, Fast, Medium, Task

(* When the channel has been read to its end, the status bar says how the last
   connect() ended, or "disconnected" from a failed poll on until connect() is tried:
   for any number of commands in between and any failures (StatusIsLastConnect). *)
THEOREM StatusTruthful == Spec => []StatusIsLastConnect
<1>1. Init => SInv BY InitInv, InitStatus DEF SInv
<1>2. Spec => []SInv BY <1>1, StepStatus, PTL DEF Spec
<1>3. SInv => StatusIsLastConnect BY DEF SInv
<1>q. QED BY <1>2, <1>3, PTL
-----------------------------------------------------------------------------
(* The answers *)

(* What the user is told is true: the safety that CommandsAnswered rests on. *)
OkMeansCarried == \A c \in Commands : told[c] = "ok" => c \in carried

(* A result of success is of a call that was carried out, in the channel, *)
ResultsHonest ==
  \A i \in 1 .. Len(inbox) :
    inbox[i].kind = "result" /\ inbox[i].outcome = "ok" => inbox[i].command \in carried

(* and before, at the task that has it from the daemon and still has the client. *)
CallHonest == request = "ok" /\ queue[1] \in Commands => queue[1] \in carried

HInv == IInv /\ OkMeansCarried /\ ResultsHonest /\ CallHonest

LEMMA InitHonest == Init => HInv
<1>1. SUFFICES ASSUME Init PROVE OkMeansCarried /\ ResultsHonest /\ CallHonest
  BY InitInv DEF HInv
<1>2. Len(inbox) = 0 BY <1>1, EmptySeq DEF Init
<1>q. QED BY <1>1, <1>2 DEF Init, OkMeansCarried, ResultsHonest, CallHonest

(* The channel stays honest while nothing but an honest message is posted. *)
LEMMA HonestPosting ==
  ASSUME TypeOK, ResultsHonest, UNCHANGED carried, NEW m \in Message, Post(m),
         m.kind = "result" /\ m.outcome = "ok" => m.command \in carried
  PROVE  ResultsHonest'
<1>1. /\ Len(inbox) \in Nat /\ Len(inbox') = Len(inbox) + 1 /\ inbox'[Len(inbox) + 1] = m
      /\ \A i \in 1 .. Len(inbox) : inbox'[i] = inbox[i]
  BY AppendProperties, LenProperties DEF TypeOK, Post
<1>2. \A i \in 1 .. Len(inbox') : i \in 1 .. Len(inbox) \/ i = Len(inbox) + 1 BY <1>1
<1>q. QED BY <1>1, <1>2 DEF ResultsHonest

(* The call that has ended stays that of the first in the queue when others join. *)
LEMMA JoinedBehind ==
  ASSUME IInv, NEW w \in Waiters, queue' = Append(queue, w), UNCHANGED <<request, carried>>,
         CallHonest
  PROVE  CallHonest'
<1>1. CASE request # "ok" BY <1>1 DEF CallHonest
<1>2. CASE request = "ok"
  <2>1. queue # << >> /\ queue \in Seq(Waiters) BY <1>2 DEF IInv, TypeOK, CallOfHolder
  <2>2. 1 \in 1 .. Len(queue) BY <2>1, EmptySeq, LenProperties
  <2>3. queue'[1] = queue[1] BY <2>1, <2>2, AppendProperties
  <2>q. QED BY <2>3 DEF CallHonest
<1>q. QED BY <1>1, <1>2

LEMMA AroundKeepsHonest ==
  ASSUME HInv,
         \/ BusDown \/ DaemonDown \/ BusUp \/ DaemonUp \/ SupplyChanges \/ Call
         \/ \E c \in Commands : Press(c)
  PROVE  OkMeansCarried' /\ ResultsHonest' /\ CallHonest'
<1>1. UNCHANGED <<queue, carried, inbox, told>>
  BY DEF BusDown, DaemonDown, BusUp, DaemonUp, SupplyChanges, Call, Press, client, screen
<1>2. request' = "ok" => request = "ok"
  <2>1. CASE Interrupted BY <2>1 DEF Interrupted
  <2>2. CASE Call BY <2>2 DEF Call
  <2>3. CASE UNCHANGED request BY <2>3
  <2>q. QED
    BY <2>1, <2>2, <2>3 DEF BusDown, DaemonDown, BusUp, DaemonUp, SupplyChanges, Press, client
<1>q. QED BY <1>1, <1>2 DEF HInv, OkMeansCarried, ResultsHonest, CallHonest

(* A call ends well only when the daemon has carried it out. *)
LEMMA ServeKeepsHonest ==
  ASSUME HInv, Serve(Faults)
  PROVE  OkMeansCarried' /\ ResultsHonest' /\ CallHonest'
<1>1. UNCHANGED <<queue, inbox, told>> BY DEF Serve, screen
<1>2. carried \subseteq carried' BY DEF Serve
<1>3. Holder = queue[1]
  BY HolderIsFirst DEF HInv, IInv, CallOfHolder, Serve
<1>4. CallHonest' BY <1>1, <1>3 DEF Serve, CallHonest
<1>5. OkMeansCarried' BY <1>1, <1>2 DEF HInv, OkMeansCarried
<1>6. ResultsHonest' BY <1>1, <1>2 DEF HInv, ResultsHonest
<1>q. QED BY <1>4, <1>5, <1>6

LEMMA PollersKeepHonest ==
  ASSUME HInv, Fast(Faults) \/ Medium
  PROVE  OkMeansCarried' /\ ResultsHonest' /\ CallHonest'
<1>1. UNCHANGED <<carried, told>>
  BY DEF Fast, FastWakes, FastAnswered, FastReports, Connects, Medium, MediumWakes,
         MediumAnswered, screen
<1>2. OkMeansCarried' BY <1>1 DEF HInv, OkMeansCarried
<1>3. UNCHANGED inbox => ResultsHonest' BY <1>1 DEF HInv, ResultsHonest
<1>4. request' = "none" => CallHonest' BY DEF CallHonest
<1>5. "fast" \in Waiters /\ "medium" \in Waiters BY DEF Waiters, Pollers
<1>6. CASE FastWakes
  BY <1>1, <1>2, <1>3, <1>5, <1>6, JoinedBehind DEF HInv, FastWakes
<1>7. CASE FastAnswered
  BY <1>2, <1>3, <1>4, <1>7 DEF FastAnswered, Release
<1>8. CASE FastReports
  <2>1. CASE UNCHANGED <<queue, inbox>>
    BY <1>1, <1>2, <1>3, <1>8, <2>1 DEF HInv, FastReports, CallHonest
  <2>2. CASE Post([kind |-> "lost"]) /\ queue' = Append(queue, "fast")
    <3>1. [kind |-> "lost"] \in Message /\ [kind |-> "lost"].kind # "result" BY DEF Message
    <3>2. ResultsHonest' BY <1>1, <2>2, <3>1, HonestPosting DEF HInv, IInv
    <3>3. CallHonest' BY <1>1, <1>5, <1>8, <2>2, JoinedBehind DEF HInv, FastReports
    <3>q. QED BY <1>2, <3>2, <3>3
  <2>q. QED BY <1>8, <2>1, <2>2 DEF FastReports
<1>9. CASE Connects(Faults)
  <2>1. request' = "none"
    BY <1>9, HolderIsFirst DEF HInv, IInv, CallOfHolder, Connects
  <2>2. Post([kind |-> "restored"]) \/ UNCHANGED inbox BY <1>9 DEF Connects
  <2>3. [kind |-> "restored"] \in Message /\ [kind |-> "restored"].kind # "result"
    BY DEF Message
  <2>4. ResultsHonest' BY <1>1, <1>3, <2>2, <2>3, HonestPosting DEF HInv, IInv
  <2>q. QED BY <1>2, <1>4, <2>1, <2>4
<1>10. CASE MediumWakes
  BY <1>1, <1>2, <1>3, <1>5, <1>10, JoinedBehind DEF HInv, MediumWakes
<1>11. CASE MediumAnswered
  <2>1. request' = "none" BY <1>11 DEF MediumAnswered
  <2>2. CASE request = "ok" /\ medium # "cpu"
    <3> DEFINE m == [kind |-> medium, of |-> reply]
    <3>1. Post(m) BY <1>11, <2>2 DEF MediumAnswered
    <3>2. m \in Message /\ m.kind # "result" BY <1>11, <2>2, MediumPosts DEF HInv
    <3> HIDE DEF m
    <3>3. ResultsHonest' BY <1>1, <3>1, <3>2, HonestPosting DEF HInv, IInv
    <3>q. QED BY <1>2, <1>4, <2>1, <3>3
  <2>3. CASE ~ (request = "ok" /\ medium # "cpu")
    BY <1>2, <1>3, <1>4, <1>11, <2>1, <2>3 DEF MediumAnswered
  <2>q. QED BY <2>2, <2>3
<1>q. QED BY <1>6, <1>7, <1>8, <1>9, <1>10, <1>11 DEF Fast, Medium

(* A task passes on how its call has ended. *)
LEMMA TasksKeepHonest ==
  ASSUME HInv, NEW c \in Commands, Task(c)
  PROVE  OkMeansCarried' /\ ResultsHonest' /\ CallHonest'
<1>1. UNCHANGED <<carried, told>> BY DEF Task, Starts, Ends, screen
<1>2. OkMeansCarried' BY <1>1 DEF HInv, OkMeansCarried
<1>3. CASE Starts(c)
  <2>1. ResultsHonest' BY <1>3 DEF HInv, ResultsHonest, Starts
  <2>2. c \in Waiters BY DEF Waiters
  <2>3. CallHonest' BY <1>3, <2>2, JoinedBehind DEF HInv, Starts
  <2>q. QED BY <1>2, <2>1, <2>3
<1>4. CASE Ends(c)
  <2> DEFINE m == [kind |-> "result", command |-> c, outcome |-> request]
  <2>1. /\ queue # << >> /\ Holder = c /\ request \in {"ok", "error"} /\ Post(m)
        /\ request' = "none"
    BY <1>4 DEF Ends, Answered, Release
  <2>2. queue[1] = c BY <2>1, HolderIsFirst DEF HInv, IInv
  <2>3. m \in Message BY <2>1 DEF Message
  <2>4. m.outcome = "ok" => m.command \in carried BY <2>2 DEF HInv, CallHonest
  <2> HIDE DEF m
  <2>5. ResultsHonest' BY <1>1, <2>1, <2>3, <2>4, HonestPosting DEF HInv, IInv
  <2>6. CallHonest' BY <2>1 DEF CallHonest
  <2>q. QED BY <1>2, <2>5, <2>6
<1>q. QED BY <1>3, <1>4 DEF Task

(* The main loop tells what the channel says. *)
LEMMA HandleKeepsHonest ==
  ASSUME HInv, Handle
  PROVE  OkMeansCarried' /\ ResultsHonest' /\ CallHonest'
<1>1. UNCHANGED <<carried, queue, request>> BY DEF Handle, client
<1>2. /\ inbox \in Seq(Message) /\ Len(inbox) \in Nat /\ Len(inbox) # 0
      /\ Len(inbox') = Len(inbox) - 1
      /\ \A i \in 1 .. Len(inbox') : inbox'[i] = inbox[i + 1]
      /\ Head(inbox) = inbox[1]
  BY HeadTailProperties, EmptySeq, LenProperties DEF HInv, IInv, TypeOK, Handle
<1>3. \A i \in 1 .. Len(inbox') : i + 1 \in 1 .. Len(inbox) BY <1>2
<1>4. ResultsHonest' BY <1>1, <1>2, <1>3 DEF HInv, ResultsHonest
<1>5. OkMeansCarried'
  <2> DEFINE m == Head(inbox)
  <2>1. m.kind = "result" /\ m.outcome = "ok" => m.command \in carried
    <3>1. 1 \in 1 .. Len(inbox) BY <1>2
    <3>q. QED BY <1>2, <3>1 DEF HInv, ResultsHonest
  <2>2. told' = IF m.kind = "result" THEN [told EXCEPT ![m.command] = m.outcome] ELSE told
    BY DEF Handle
  <2>3. told \in [Commands -> {"nothing", "ok", "error"}] BY DEF HInv, IInv, TypeOK
  <2> HIDE DEF m
  <2>q. QED BY <1>1, <2>1, <2>2, <2>3 DEF HInv, OkMeansCarried
<1>6. CallHonest' BY <1>1 DEF HInv, CallHonest
<1>q. QED BY <1>4, <1>5, <1>6

(* A call that was sent may still be carried out when the TUI has ended. *)
LEMMA QuitKeepsHonest ==
  ASSUME HInv, Quit
  PROVE  OkMeansCarried' /\ ResultsHonest' /\ CallHonest'
<1>1. UNCHANGED <<carried, told>> /\ inbox' = << >> /\ request' # "ok" BY DEF Quit
<1>2. Len(inbox') = 0 BY <1>1, EmptySeq
<1>q. QED BY <1>1, <1>2 DEF HInv, OkMeansCarried, ResultsHonest, CallHonest

LEMMA StepHonest == HInv /\ [Next(Faults)]_vars => HInv'
<1>1. SUFFICES ASSUME HInv, [Next(Faults)]_vars
               PROVE  OkMeansCarried' /\ ResultsHonest' /\ CallHonest'
  BY StepInv DEF HInv
<1>2. CASE UNCHANGED vars
  BY <1>1, <1>2 DEF HInv, OkMeansCarried, ResultsHonest, CallHonest, vars, client, screen
<1>3. CASE \E c \in Commands : Task(c) BY <1>1, <1>3, TasksKeepHonest
<1>q. QED
  BY <1>1, <1>2, <1>3, AroundKeepsHonest, ServeKeepsHonest, PollersKeepHonest,
     HandleKeepsHonest, QuitKeepsHonest DEF Next

(* A command that is reported as done has been carried out, whatever failed meanwhile
   and whoever had the client before: the outcome is that of the task's own call.  The
   other way it does not hold: an error may follow a call that was carried out, when
   the daemon goes before its answer arrives.  Of CommandsAnswered, which a run
   checks, this is what holds without any fairness. *)
THEOREM OkIsTrue == Spec => []OkMeansCarried
<1>1. Spec => []HInv BY InitHonest, StepHonest, PTL DEF Spec
<1>2. HInv => OkMeansCarried BY DEF HInv
<1>q. QED BY <1>1, <1>2, PTL
=============================================================================
