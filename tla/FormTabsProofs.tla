---------------------------- MODULE FormTabsProofs ----------------------------
(***************************************************************************)
(* Theorems about FormTabs, for any tabs, values, faults and bound: the    *)
(* types, that the charging form follows the capabilities, that edits are  *)
(* kept, and that what is not marked is what the daemon has.               *)
(***************************************************************************)
EXTENDS FormTabs, SequenceTheorems, TLAPS

-----------------------------------------------------------------------------
(* Queues.  What the invariants ask of the tasks and of the channel is whether
   an entry of a kind is there for a tab, and whether it is the only one. *)

Some(q, t, K) == \E i \in 1 .. Len(q) : q[i].tab = t /\ q[i].kind \in K

Single(q, t, K) ==
  \A i, j \in 1 .. Len(q) :
    /\ q[i].tab = t /\ q[i].kind \in K
    /\ q[j].tab = t /\ q[j].kind \in K
    => i = j

(* An entry more at the end. *)
LEMMA Appended ==
  ASSUME NEW S, NEW q \in Seq(S), NEW e, NEW t, NEW K
  PROVE  /\ Some(Append(q, e), t, K) <=> Some(q, t, K) \/ (e.tab = t /\ e.kind \in K)
         /\ Single(q, t, K) /\ ~ (e.tab = t /\ e.kind \in K) => Single(Append(q, e), t, K)
         /\ ~ Some(q, t, K) => Single(Append(q, e), t, K)
<1> DEFINE r == Append(q, e)
<1>1. /\ Len(q) \in Nat /\ Len(r) = Len(q) + 1
      /\ \A i \in 1 .. Len(q) : r[i] = q[i]
      /\ r[Len(q) + 1] = e
  OBVIOUS
<1>2. 1 .. Len(r) = 1 .. Len(q) \cup {Len(q) + 1} BY <1>1
<1> HIDE DEF r
<1>3. Some(r, t, K) <=> Some(q, t, K) \/ (e.tab = t /\ e.kind \in K)
  BY <1>1, <1>2 DEF Some
<1>4. Single(q, t, K) /\ ~ (e.tab = t /\ e.kind \in K) => Single(r, t, K)
  BY <1>1, <1>2 DEF Single
<1>5. ~ Some(q, t, K) => Single(r, t, K)
  BY <1>1, <1>2 DEF Single, Some
<1>q. QED BY <1>3, <1>4, <1>5 DEF r

(* The entry at position i is gone. *)
LEMMA Removed ==
  ASSUME NEW S, NEW q \in Seq(S), NEW i \in 1 .. Len(q)
  PROVE  /\ RemoveAt(q, i) \in Seq(S)
         /\ \A j \in 1 .. Len(RemoveAt(q, i)) :
              \E k \in 1 .. Len(q) : k # i /\ RemoveAt(q, i)[j] = q[k]
         /\ \A t, K :
              /\ Some(RemoveAt(q, i), t, K) => Some(q, t, K)
              /\ Some(q, t, K) /\ ~ (q[i].tab = t /\ q[i].kind \in K)
                   => Some(RemoveAt(q, i), t, K)
              /\ Single(q, t, K) => Single(RemoveAt(q, i), t, K)
              /\ Single(q, t, K) /\ q[i].tab = t /\ q[i].kind \in K
                   => ~ Some(RemoveAt(q, i), t, K)
<1> DEFINE r == RemoveAt(q, i)
           at(j) == IF j < i THEN j ELSE j + 1
<1>1. Len(q) \in Nat /\ i \in Nat /\ Len(q) - 1 \in Nat OBVIOUS
<1>3. \A j \in 1 .. Len(q) - 1 : at(j) \in 1 .. Len(q) /\ at(j) # i
  BY <1>1
<1>4. /\ r \in Seq(S) /\ Len(r) = Len(q) - 1
      /\ \A j \in 1 .. Len(q) - 1 : r[j] = q[at(j)]
  <2> DEFINE a == SubSeq(q, 1, i - 1)
             b == SubSeq(q, i + 1, Len(q))
  <2>1. /\ a \in Seq(S) /\ Len(a) = i - 1
        /\ \A j \in 1 .. i - 1 : a[j] = q[j]
    <3>1. 1 \in Int /\ i - 1 \in Int /\ \A j \in 1 .. i - 1 : q[j] \in S BY <1>1
    <3>q. QED BY <1>1, <3>1, SubSeqProperties
  <2>2. /\ b \in Seq(S) /\ Len(b) = Len(q) - i
        /\ \A j \in 1 .. Len(q) - i : b[j] = q[i + j]
    <3>1. i + 1 \in Int /\ Len(q) \in Int /\ \A j \in i + 1 .. Len(q) : q[j] \in S
      BY <1>1
    <3>q. QED BY <1>1, <3>1, SubSeqProperties
  <2> HIDE DEF a, b
  <2>3. /\ a \o b \in Seq(S) /\ Len(a \o b) = Len(a) + Len(b)
        /\ \A j \in 1 .. Len(a) + Len(b) :
             (a \o b)[j] = IF j <= Len(a) THEN a[j] ELSE b[j - Len(a)]
    BY <2>1, <2>2, ConcatProperties
  <2>4. Len(a) + Len(b) = Len(q) - 1 BY <1>1, <2>1, <2>2
  <2>5. ASSUME NEW j \in 1 .. Len(q) - 1
        PROVE  (a \o b)[j] = q[at(j)]
    <3>1. CASE j < i
      <4>1. j \in 1 .. i - 1 /\ j <= Len(a) BY <1>1, <2>1, <3>1
      <4>2. (a \o b)[j] = a[j] BY <2>3, <2>4, <4>1
      <4>3. a[j] = q[j] BY <2>1, <4>1
      <4>4. at(j) = j BY <3>1
      <4> HIDE DEF at
      <4>q. QED BY <4>2, <4>3, <4>4, Zenon
    <3>2. CASE j >= i
      <4>1. /\ j - (i - 1) \in 1 .. Len(q) - i /\ ~ (j <= Len(a)) /\ ~ (j < i)
            /\ i + (j - (i - 1)) = j + 1
        BY <1>1, <2>1, <3>2
      <4>2. (a \o b)[j] = b[j - (i - 1)] BY <2>1, <2>3, <2>4, <4>1
      <4>3. b[j - (i - 1)] = q[j + 1] BY <2>2, <4>1
      <4>4. at(j) = j + 1 BY <4>1
      <4>q. QED BY <4>2, <4>3, <4>4, Zenon
    <3>3. j < i \/ j >= i BY <1>1
    <3>q. QED BY <3>1, <3>2, <3>3, Zenon
  <2>q. QED BY <2>3, <2>4, <2>5 DEF a, b, RemoveAt
<1>5. \A j, k \in 1 .. Len(q) - 1 : at(j) = at(k) => j = k BY <1>1
<1>6. \A k \in 1 .. Len(q) : k # i => \E j \in 1 .. Len(q) - 1 : at(j) = k
  <2>1. SUFFICES ASSUME NEW k \in 1 .. Len(q), k # i
                 PROVE  \E j \in 1 .. Len(q) - 1 : at(j) = k
    OBVIOUS
  <2>2. CASE k < i
    <3>1. k \in 1 .. Len(q) - 1 /\ at(k) = k BY <1>1, <2>2
    <3>q. QED BY <3>1
  <2>3. CASE k > i
    <3>1. k - 1 \in 1 .. Len(q) - 1 /\ at(k - 1) = k BY <1>1, <2>3
    <3>q. QED BY <3>1
  <2>q. QED BY <1>1, <2>1, <2>2, <2>3
<1>7. \A j \in 1 .. Len(r) : r[j] = q[at(j)] BY <1>4
<1> HIDE DEF r, at
<1>8. \A j \in 1 .. Len(r) : \E k \in 1 .. Len(q) : k # i /\ r[j] = q[k]
  BY <1>3, <1>4, <1>7
<1>9. ASSUME NEW t, NEW K
      PROVE  /\ Some(r, t, K) => Some(q, t, K)
             /\ Some(q, t, K) /\ ~ (q[i].tab = t /\ q[i].kind \in K) => Some(r, t, K)
             /\ Single(q, t, K) => Single(r, t, K)
             /\ Single(q, t, K) /\ q[i].tab = t /\ q[i].kind \in K => ~ Some(r, t, K)
  <2>1. Some(r, t, K) => Some(q, t, K) BY <1>8 DEF Some
  <2>2. Some(q, t, K) /\ ~ (q[i].tab = t /\ q[i].kind \in K) => Some(r, t, K)
    <3>1. SUFFICES ASSUME NEW k \in 1 .. Len(q), q[k].tab = t, q[k].kind \in K,
                          ~ (q[i].tab = t /\ q[i].kind \in K)
                   PROVE  Some(r, t, K)
      BY DEF Some
    <3>2. PICK j \in 1 .. Len(q) - 1 : at(j) = k BY <1>6, <3>1
    <3>3. j \in 1 .. Len(r) /\ r[j] = q[k] BY <1>4, <1>7, <3>2
    <3>q. QED BY <3>1, <3>3 DEF Some
  <2>3. Single(q, t, K) => Single(r, t, K)
    <3>1. SUFFICES ASSUME Single(q, t, K), NEW j \in 1 .. Len(r), NEW k \in 1 .. Len(r),
                          r[j].tab = t, r[j].kind \in K, r[k].tab = t, r[k].kind \in K
                   PROVE  j = k
      BY DEF Single
    <3>2. /\ at(j) \in 1 .. Len(q) /\ at(k) \in 1 .. Len(q)
          /\ r[j] = q[at(j)] /\ r[k] = q[at(k)]
      BY <1>3, <1>4, <1>7
    <3>3. at(j) = at(k) BY <3>1, <3>2 DEF Single
    <3>q. QED BY <1>4, <1>5, <3>3
  <2>4. Single(q, t, K) /\ q[i].tab = t /\ q[i].kind \in K => ~ Some(r, t, K)
    BY <1>8 DEF Single, Some
  <2>q. QED BY <2>1, <2>2, <2>3, <2>4
<1>q. QED BY <1>4, <1>8, <1>9 DEF r

(* The first entry is gone. *)
LEMMA Received ==
  ASSUME NEW S, NEW q \in Seq(S), q # << >>
  PROVE  /\ 1 \in 1 .. Len(q) /\ Head(q) = q[1] /\ Head(q) \in S
         /\ Tail(q) = RemoveAt(q, 1)
<1>1. Len(q) \in Nat /\ Len(q) # 0 /\ Head(q) = q[1] OBVIOUS
<1>2. 1 \in 1 .. Len(q) BY <1>1
<1>3. SubSeq(q, 2, Len(q)) \in Seq(S)
  <2>1. 2 \in Int /\ Len(q) \in Int /\ \A j \in 2 .. Len(q) : q[j] \in S BY <1>1
  <2>q. QED BY <2>1, SubSeqProperties
<1>4. RemoveAt(q, 1) = SubSeq(q, 2, Len(q))
  <2>1. SubSeq(q, 1, 1 - 1) = << >> BY SubSeqEmpty
  <2>q. QED BY <1>3, <2>1, ConcatEmptySeq DEF RemoveAt
<1>q. QED BY <1>1, <1>2, <1>4, TailIsSubSeq

-----------------------------------------------------------------------------
(* What is on its way *)

Queries == {"data", "devices", "caps"}
Saves == {"save"}

Asked(ts, ms, t) == Some(ts, t, Queries) \/ Some(ms, t, Queries)

(* At most one question or answer for a tab. *)
Once(ts, ms, t) ==
  /\ Single(ts, t, Queries)
  /\ Single(ms, t, Queries)
  /\ ~ (Some(ts, t, Queries) /\ Some(ms, t, Queries))

(* A task is spawned. *)
LEMMA Spawned ==
  ASSUME NEW S, NEW ts \in Seq(S), NEW ms, NEW k, NEW t
  PROVE  LET us == Append(ts, k)
             it == k.tab = t /\ k.kind \in Queries IN
         /\ Asked(us, ms, t) <=> Asked(ts, ms, t) \/ it
         /\ Some(us, t, Saves) <=> Some(ts, t, Saves) \/ (k.tab = t /\ k.kind \in Saves)
         /\ Once(ts, ms, t) /\ ~ it => Once(us, ms, t)
         /\ ~ Asked(ts, ms, t) /\ Single(ms, t, Queries) => Once(us, ms, t)
BY Appended DEF Asked, Once

(* A task that is no query is gone. *)
LEMMA Finished ==
  ASSUME NEW S, NEW ts \in Seq(S), NEW ms, NEW i \in 1 .. Len(ts), NEW t
  PROVE  LET us == RemoveAt(ts, i) IN
         /\ Asked(us, ms, t) => Asked(ts, ms, t)
         /\ Asked(ts, ms, t) /\ ~ (ts[i].tab = t /\ ts[i].kind \in Queries) => Asked(us, ms, t)
         /\ Some(us, t, Saves) => Some(ts, t, Saves)
         /\ Once(ts, ms, t) => Once(us, ms, t)
BY Removed DEF Asked, Once

(* A query becomes an answer. *)
LEMMA Answered ==
  ASSUME NEW S, NEW ts \in Seq(S), NEW M, NEW ms \in Seq(M), NEW i \in 1 .. Len(ts),
         NEW m, m.tab = ts[i].tab, m.kind \in Queries, ts[i].kind \in Queries, NEW t
  PROVE  LET us == RemoveAt(ts, i)
             ns == Append(ms, m) IN
         /\ Asked(us, ns, t) <=> Asked(ts, ms, t)
         /\ Some(us, t, Saves) => Some(ts, t, Saves)
         /\ Once(ts, ms, t) => Once(us, ns, t)
<1> DEFINE us == RemoveAt(ts, i)
           ns == Append(ms, m)
<1>1. /\ Some(us, t, Queries) => Some(ts, t, Queries)
      /\ Some(ts, t, Queries) /\ m.tab # t => Some(us, t, Queries)
      /\ Single(ts, t, Queries) => Single(us, t, Queries)
      /\ Single(ts, t, Queries) /\ m.tab = t => ~ Some(us, t, Queries)
      /\ Some(us, t, Saves) => Some(ts, t, Saves)
  BY Removed
<1>2. /\ Some(ns, t, Queries) <=> Some(ms, t, Queries) \/ m.tab = t
      /\ Single(ms, t, Queries) /\ m.tab # t => Single(ns, t, Queries)
      /\ ~ Some(ms, t, Queries) => Single(ns, t, Queries)
  BY Appended
<1>3. m.tab = t => Some(ts, t, Queries) BY DEF Some
<1> HIDE DEF us, ns
<1>4. Asked(us, ns, t) <=> Asked(ts, ms, t) BY <1>1, <1>2, <1>3 DEF Asked
<1>5. Once(ts, ms, t) => Once(us, ns, t) BY <1>1, <1>2, <1>3 DEF Once
<1>q. QED BY <1>1, <1>4, <1>5 DEF us, ns

(* The first message is taken. *)
LEMMA Taken ==
  ASSUME NEW M, NEW ms \in Seq(M), ms # << >>, Head(ms).kind \in Queries, NEW ts, NEW t
  PROVE  LET ns == Tail(ms) IN
         /\ Asked(ts, ns, t) => Asked(ts, ms, t)
         /\ Asked(ts, ms, t) /\ Head(ms).tab # t => Asked(ts, ns, t)
         /\ Asked(ts, ms, Head(ms).tab)
         /\ Once(ts, ms, t) => Once(ts, ns, t)
         /\ Once(ts, ms, t) /\ Head(ms).tab = t => ~ Asked(ts, ns, t)
<1>1. /\ 1 \in 1 .. Len(ms) /\ Head(ms) = ms[1] /\ Tail(ms) = RemoveAt(ms, 1)
  BY Received
<1>2. Some(ms, ms[1].tab, Queries) BY <1>1 DEF Some
<1> DEFINE ns == RemoveAt(ms, 1)
<1>3. /\ Some(ns, t, Queries) => Some(ms, t, Queries)
      /\ Some(ms, t, Queries) /\ ms[1].tab # t => Some(ns, t, Queries)
      /\ Single(ms, t, Queries) => Single(ns, t, Queries)
      /\ Single(ms, t, Queries) /\ ms[1].tab = t => ~ Some(ns, t, Queries)
  BY <1>1, Removed
<1> HIDE DEF ns
<1>4. /\ Asked(ts, ns, t) => Asked(ts, ms, t)
      /\ Asked(ts, ms, t) /\ ms[1].tab # t => Asked(ts, ns, t)
      /\ Asked(ts, ms, ms[1].tab)
  BY <1>2, <1>3 DEF Asked
<1>5. Once(ts, ms, t) => Once(ts, ns, t) BY <1>3 DEF Once
<1>6. Once(ts, ms, t) /\ ms[1].tab = t => ~ Asked(ts, ns, t)
  BY <1>2, <1>3 DEF Once, Asked
<1>q. QED BY <1>1, <1>4, <1>5, <1>6 DEF ns

-----------------------------------------------------------------------------
(* The invariant.  TypeOK does not say what the queues may hold; a tab that was
   asked for alone has one question or one answer under way, and nothing to
   save with it. *)

TaskOK(k, listed) ==
  /\ k.kind = "caps" <=> k.tab = None
  /\ k.kind = "devices" => k.tab = "webcam"
  /\ k.kind = "data" /\ k.tab = "webcam" => listed

MessageOK(m, listed) ==
  /\ m.kind = "devices" => m.tab = "webcam"
  /\ m.kind = "data" /\ m.tab = "webcam" => listed

(* What the form of a tab shows at most. *)
Shown(t) == IF t = "charging" THEN supported ELSE Groups(t)

(* A form is there only in a tab that counts as loaded, the webcam tab too, and
   is marked only if there was something to edit. *)
FormOK(t) ==
  form[t] # None =>
    /\ loaded[t]
    /\ form[t].editable \subseteq Shown(t)
    /\ form[t].dirty => form[t].editable # {}

TasksOK ==
  /\ tasks \in Seq(TaskType)
  /\ \A i \in 1 .. Len(tasks) : TaskOK(tasks[i], devices)

MailOK ==
  /\ mailbox \in Seq(MessageType)
  /\ \A i \in 1 .. Len(mailbox) : MessageOK(mailbox[i], devices)

Typed ==
  /\ TypeOK /\ TasksOK /\ MailOK
  /\ caps \subseteq supported
  /\ \A t \in Tabs : FormOK(t)

(* The capabilities come once; until then the charging form has nothing to
   edit, and nothing of it is saved. *)
CapsFirst ==
  /\ Once(tasks, mailbox, None)
  /\ Asked(tasks, mailbox, None) =>
       /\ caps = {}
       /\ "charging" \in Tabs =>
            /\ form["charging"] # None => form["charging"].editable = {}
            /\ ~ Some(tasks, "charging", Saves)

(* Of a tab that was asked for alone: an answer that comes while there is a form
   is the one that the capabilities have asked for. *)
AloneOK(t) ==
  alone[t] =>
    /\ Once(tasks, mailbox, t)
    /\ form[t] # None /\ Asked(tasks, mailbox, t) =>
         t = "charging" /\ form[t].editable = {} /\ ~ Asked(tasks, mailbox, None)
    /\ Some(tasks, t, Saves) =>
         ~ Asked(tasks, mailbox, t) /\ (form[t] # None => form[t].dirty)

IInv == Typed /\ CapsFirst /\ \A t \in Tabs : AloneOK(t)

(* How the operators of FormTabs read in these terms. *)
LEMMA UnderWay ==
  ASSUME Typed, NEW t
  PROVE  /\ Fetching(t) <=> Asked(tasks, mailbox, t)
         /\ Saving(t) <=> Some(tasks, t, Saves)
<1>1. \A i \in 1 .. Len(tasks) : tasks[i].kind \in {"data", "devices", "caps", "save"}
  <2>1. \A i \in 1 .. Len(tasks) : tasks[i] \in TaskType BY DEF Typed, TypeOK
  <2>q. QED BY <2>1 DEF TaskType
<1>2. \A i \in 1 .. Len(mailbox) : mailbox[i].kind \in Queries
  <2>1. \A i \in 1 .. Len(mailbox) : mailbox[i] \in MessageType BY DEF Typed, TypeOK
  <2>q. QED BY <2>1 DEF MessageType, Queries
<1>q. QED BY <1>1, <1>2 DEF Fetching, Saving, Asked, Some, Queries, Saves

(* What the types say, one by one. *)
LEMMA Parts ==
  ASSUME Typed
  PROVE  /\ tasks \in Seq(TaskType) /\ mailbox \in Seq(MessageType)
         /\ form \in [Tabs -> {None} \cup Form]
         /\ \A t \in Tabs : form[t] # None => form[t].editable \subseteq Groups(t)
         /\ loaded \in [Tabs -> BOOLEAN]
         /\ \A t \in Tabs : loaded[t] = IF t = "webcam" THEN devices ELSE form[t] # None
         /\ alone \in [Tabs -> BOOLEAN] /\ failed \in [Tabs -> BOOLEAN]
BY DEF Typed, TypeOK

(* The content that starts a form. *)
LEMMA FactoryContent == Factory \in Content
BY FormTabsAssumption DEF Factory, Content

LEMMA NoTab == None \notin Tabs /\ None \notin Form
BY FormTabsAssumption

(* A new task. *)
LEMMA NewTask ==
  ASSUME NEW kind \in {"data", "devices", "caps", "save"}, NEW t \in Tabs \cup {None}
  PROVE  /\ Task(kind, t) \in TaskType
         /\ Task(kind, t).kind = kind /\ Task(kind, t).tab = t
BY FactoryContent DEF Task, TaskType

-----------------------------------------------------------------------------
(* The queues keep their types. *)

LEMMA TasksStay ==
  ASSUME TasksOK, UNCHANGED tasks, devices => devices'
  PROVE  TasksOK'
BY DEF TasksOK, TaskOK, TaskType, Content

LEMMA TasksGrow ==
  ASSUME TasksOK, NEW k \in TaskType, tasks' = Append(tasks, k),
         k.kind = "caps" <=> k.tab = None, k.kind = "devices" => k.tab = "webcam",
         k.kind = "data" /\ k.tab = "webcam" => devices', devices => devices'
  PROVE  TasksOK'
<1>1. tasks \in Seq(TaskType) /\ \A i \in 1 .. Len(tasks) : TaskOK(tasks[i], devices)
  BY DEF TasksOK
<1>2. /\ Len(tasks') = Len(tasks) + 1 /\ Len(tasks) \in Nat
      /\ tasks'[Len(tasks) + 1] = k
      /\ \A i \in 1 .. Len(tasks) : tasks'[i] = tasks[i]
      /\ tasks' \in Seq(TaskType)
  BY <1>1, AppendProperties
<1>3. \A i \in 1 .. Len(tasks') : tasks'[i] = k \/ \E j \in 1 .. Len(tasks) : tasks'[i] = tasks[j]
  BY <1>2
<1>4. \A i \in 1 .. Len(tasks') : TaskOK(tasks'[i], devices')
  BY <1>1, <1>3 DEF TaskOK
<1>5. TaskType' = TaskType BY DEF TaskType, Content
<1>q. QED BY <1>2, <1>4, <1>5 DEF TasksOK

LEMMA TasksShrink ==
  ASSUME TasksOK, NEW i \in 1 .. Len(tasks), tasks' = RemoveAt(tasks, i), UNCHANGED devices
  PROVE  TasksOK'
<1>1. tasks \in Seq(TaskType) /\ \A j \in 1 .. Len(tasks) : TaskOK(tasks[j], devices)
  BY DEF TasksOK
<1>2. /\ tasks' \in Seq(TaskType)
      /\ \A j \in 1 .. Len(tasks') : \E k \in 1 .. Len(tasks) : tasks'[j] = tasks[k]
  BY <1>1, Removed
<1>4. \A j \in 1 .. Len(tasks') : TaskOK(tasks'[j], devices')
  BY <1>1, <1>2 DEF TaskOK
<1>5. TaskType' = TaskType BY DEF TaskType, Content
<1>q. QED BY <1>2, <1>4, <1>5 DEF TasksOK

LEMMA MailStays ==
  ASSUME MailOK, UNCHANGED <<mailbox, supported>>, devices => devices'
  PROVE  MailOK'
<1>1. MessageType' = MessageType BY DEF MessageType, Content
<1>q. QED BY <1>1 DEF MailOK, MessageOK

LEMMA MailGrows ==
  ASSUME MailOK, NEW m \in MessageType, mailbox' = Append(mailbox, m), MessageOK(m, devices),
         UNCHANGED <<supported, devices>>
  PROVE  MailOK'
<1>1. mailbox \in Seq(MessageType) /\ \A i \in 1 .. Len(mailbox) : MessageOK(mailbox[i], devices)
  BY DEF MailOK
<1>2. /\ Len(mailbox') = Len(mailbox) + 1 /\ Len(mailbox) \in Nat
      /\ mailbox'[Len(mailbox) + 1] = m
      /\ \A i \in 1 .. Len(mailbox) : mailbox'[i] = mailbox[i]
      /\ mailbox' \in Seq(MessageType)
  BY <1>1, AppendProperties
<1>3. \A i \in 1 .. Len(mailbox') :
        mailbox'[i] = m \/ \E j \in 1 .. Len(mailbox) : mailbox'[i] = mailbox[j]
  BY <1>2
<1>4. \A i \in 1 .. Len(mailbox') : MessageOK(mailbox'[i], devices')
  BY <1>1, <1>3 DEF MessageOK
<1>5. MessageType' = MessageType BY DEF MessageType, Content
<1>q. QED BY <1>2, <1>4, <1>5 DEF MailOK

LEMMA MailShrinks ==
  ASSUME MailOK, mailbox # << >>, mailbox' = Tail(mailbox), UNCHANGED supported,
         devices => devices'
  PROVE  MailOK'
<1>1. mailbox \in Seq(MessageType) /\ \A j \in 1 .. Len(mailbox) : MessageOK(mailbox[j], devices)
  BY DEF MailOK
<1>2. /\ mailbox' \in Seq(MessageType)
      /\ \A j \in 1 .. Len(mailbox') : \E k \in 1 .. Len(mailbox) : mailbox'[j] = mailbox[k]
  BY <1>1, Received, Removed
<1>4. \A j \in 1 .. Len(mailbox') : MessageOK(mailbox'[j], devices')
  BY <1>1, <1>2 DEF MessageOK
<1>5. MessageType' = MessageType BY DEF MessageType, Content
<1>q. QED BY <1>2, <1>4, <1>5 DEF MailOK

(* The first message. *)
LEMMA FirstMessage ==
  ASSUME MailOK, mailbox # << >>
  PROVE  LET m == Head(mailbox) IN
         /\ m \in MessageType /\ MessageOK(m, devices) /\ m.kind \in Queries
         /\ m.kind = "caps" => m.data = supported /\ m.tab = None
         /\ m.kind # "caps" => m.data \in Content /\ m.tab \in Tabs
<1>1. mailbox \in Seq(MessageType) /\ \A j \in 1 .. Len(mailbox) : MessageOK(mailbox[j], devices)
  BY DEF MailOK
<1>2. Head(mailbox) \in MessageType /\ MessageOK(Head(mailbox), devices)
  BY <1>1, Received
<1>q. QED BY <1>2 DEF MessageType, Queries

-----------------------------------------------------------------------------
(* Every step keeps the types. *)

LEMMA AskTyped ==
  ASSUME Typed, NEW t \in Tabs, NEW kind \in {"data", "devices"}, Ask(t, kind),
         kind = "devices" => t = "webcam", kind = "data" /\ t = "webcam" => devices,
         UNCHANGED devices
  PROVE  /\ TasksOK' /\ MailOK' /\ UNCHANGED <<up, memory, hardware, supported>>
         /\ alone' \in [Tabs -> BOOLEAN] /\ failed' \in [Tabs -> BOOLEAN]
<1>1. TasksOK /\ MailOK /\ alone \in [Tabs -> BOOLEAN] /\ failed \in [Tabs -> BOOLEAN]
  BY DEF Typed, TypeOK
<1>2. /\ tasks' = Append(tasks, Task(kind, t)) /\ UNCHANGED mailbox
      /\ UNCHANGED <<up, memory, hardware, supported>>
      /\ alone' = [alone EXCEPT ![t] = ~ Fetching(t) /\ ~ Saving(t)]
      /\ failed' = [failed EXCEPT ![t] = FALSE]
  BY DEF Ask, Spawn, daemon
<1>3. /\ Task(kind, t) \in TaskType /\ Task(kind, t).kind = kind /\ Task(kind, t).tab = t
  BY NewTask
<1>4. kind # "caps" /\ t # None BY NoTab
<1>5. TasksOK' BY <1>1, <1>2, <1>3, <1>4, TasksGrow
<1>6. MailOK' BY <1>1, <1>2, MailStays
<1>7. (~ Fetching(t) /\ ~ Saving(t)) \in BOOLEAN OBVIOUS
<1>q. QED BY <1>1, <1>2, <1>5, <1>6, <1>7

LEMMA KeyTyped ==
  ASSUME Typed, NEW t \in Tabs, Key(t)
  PROVE  Typed'
<1>1. CASE ShowTab(t)
  <2>1. /\ First(t) \in {"data", "devices"}
        /\ First(t) = "devices" => t = "webcam"
        /\ First(t) = "data" => t # "webcam"
    BY DEF First
  <2>2. Ask(t, First(t)) /\ UNCHANGED <<caps, loaded, form, devices>>
    BY <1>1 DEF ShowTab, screen
  <2>3. /\ TasksOK' /\ MailOK' /\ UNCHANGED <<up, memory, hardware, supported>>
        /\ alone' \in [Tabs -> BOOLEAN] /\ failed' \in [Tabs -> BOOLEAN]
    BY <2>1, <2>2, AskTyped
  <2>q. QED BY <2>2, <2>3 DEF Typed, TypeOK, FormOK, TasksOK, MailOK, Shown
<1>2. CASE EditField(t)
  <2>1. /\ UNCHANGED <<caps, loaded, devices, tasks, mailbox, up, memory, hardware, supported,
                       alone, failed>>
        /\ form[t] # None
    BY <1>2 DEF EditField, daemon, history
  <2>2. PICK g \in form[t].editable, v \in Values :
          form' = [form EXCEPT ![t].content[g] = v, ![t].dirty = TRUE]
    BY <1>2 DEF EditField
  <2>3. form \in [Tabs -> {None} \cup Form] /\ form[t] \in Form
    BY <2>1 DEF Typed, TypeOK
  <2>4. g \in {"read", "kept"} BY <2>3 DEF Form
  <2>5. /\ form'[t] \in Form /\ form'[t].editable = form[t].editable
        /\ \A u \in Tabs : u # t => form'[u] = form[u]
        /\ form' \in [Tabs -> {None} \cup Form]
    BY <2>2, <2>3, <2>4 DEF Form, Content
  <2>6. TasksOK' /\ MailOK' BY <2>1, TasksStay, MailStays DEF Typed
  <2>7. \A u \in Tabs : form'[u] # None <=> form[u] # None BY <2>1, <2>3, <2>5, NoTab
  <2>8. ASSUME NEW u \in Tabs PROVE FormOK(u)'
    <3>1. FormOK(u) /\ FormOK(t) BY DEF Typed
    <3>2. CASE u = t BY <2>1, <2>2, <2>5, <3>1, <3>2 DEF FormOK, Shown
    <3>3. CASE u # t BY <2>1, <2>5, <3>1, <3>3 DEF FormOK, Shown
    <3>q. QED BY <3>2, <3>3
  <2>9. TypeOK'
    BY <2>1, <2>5, <2>6, <2>7 DEF Typed, TypeOK, TasksOK, MailOK
  <2>q. QED BY <2>1, <2>6, <2>8, <2>9 DEF Typed
<1>3. CASE SaveForm(t)
  <2> DEFINE c == ToJson(form[t])
             k == [Task("save", t) EXCEPT !.content = c]
  <2>1. /\ UNCHANGED <<caps, loaded, form, devices, mailbox, up, memory, hardware, supported,
                       alone, failed>>
        /\ form[t] # None /\ tasks' = Append(tasks, k)
    BY <1>3 DEF SaveForm, Spawn, screen, daemon, history
  <2>2. form[t] \in Form BY <2>1 DEF Typed, TypeOK
  <2>3. c \in Content
    BY <2>2, FormTabsAssumption DEF ToJson, Form, Content
  <2> HIDE DEF c
  <2>4. k \in TaskType /\ k.kind = "save" /\ k.tab = t
    BY <2>3 DEF Task, TaskType
  <2> HIDE DEF k
  <2>5. PICK e : e = k OBVIOUS
  <2>6. TasksOK' BY <2>1, <2>4, <2>5, NoTab, TasksGrow DEF Typed
  <2>7. MailOK' BY <2>1, MailStays DEF Typed
  <2>q. QED BY <2>1, <2>6, <2>7 DEF Typed, TypeOK, FormOK, TasksOK, MailOK, Shown
<1>4. CASE DiscardForm(t)
  <2>1. /\ UNCHANGED <<caps, devices, tasks, mailbox, up, memory, hardware, supported,
                       alone, failed>>
        /\ form' = [form EXCEPT ![t] = None]
        /\ loaded' = [loaded EXCEPT ![t] = loaded[t] /\ t = "webcam"]
    BY <1>4 DEF DiscardForm, daemon, history
  <2>2. form \in [Tabs -> {None} \cup Form] /\ loaded \in [Tabs -> BOOLEAN]
    BY DEF Typed, TypeOK
  <2>3. /\ form' \in [Tabs -> {None} \cup Form] /\ form'[t] = None
        /\ \A u \in Tabs : u # t => form'[u] = form[u] /\ loaded'[u] = loaded[u]
        /\ loaded'[t] = (loaded[t] /\ t = "webcam")
        /\ loaded' \in [Tabs -> BOOLEAN]
    BY <2>1, <2>2
  <2>4. \A u \in Tabs : loaded'[u] = IF u = "webcam" THEN devices ELSE form'[u] # None
    BY <2>2, <2>3 DEF Typed, TypeOK
  <2>6. TasksOK' /\ MailOK' BY <2>1, TasksStay, MailStays DEF Typed
  <2>7. ASSUME NEW u \in Tabs PROVE FormOK(u)'
    <3>1. FormOK(u) BY DEF Typed
    <3>2. CASE u = t BY <2>3, <3>2 DEF FormOK
    <3>3. CASE u # t BY <2>1, <2>3, <3>1, <3>3 DEF FormOK, Shown
    <3>q. QED BY <3>2, <3>3
  <2>8. \A u \in Tabs : form'[u] # None => form'[u].editable \subseteq Groups(u)
    BY <2>3 DEF Typed, TypeOK
  <2>9. TypeOK'
    BY <2>1, <2>3, <2>4, <2>6, <2>8 DEF Typed, TypeOK, TasksOK, MailOK
  <2>q. QED BY <2>1, <2>6, <2>7, <2>9 DEF Typed
<1>q. QED BY <1>1, <1>2, <1>3, <1>4 DEF Key

LEMMA SwitchTyped ==
  ASSUME Typed, SwitchDevice
  PROVE  Typed'
<1>1. /\ "webcam" \in Tabs /\ devices /\ UNCHANGED <<caps, loaded, devices>>
      /\ form' = [form EXCEPT !["webcam"] = None] /\ Ask("webcam", "data")
  BY DEF SwitchDevice
<1>2. /\ TasksOK' /\ MailOK' /\ UNCHANGED <<up, memory, hardware, supported>>
      /\ alone' \in [Tabs -> BOOLEAN] /\ failed' \in [Tabs -> BOOLEAN]
  BY <1>1, AskTyped
<1>3. form \in [Tabs -> {None} \cup Form] BY DEF Typed, TypeOK
<1>4. /\ form' \in [Tabs -> {None} \cup Form] /\ form'["webcam"] = None
      /\ \A u \in Tabs : u # "webcam" => form'[u] = form[u]
  BY <1>1, <1>3
<1>5. \A u \in Tabs : loaded[u] = IF u = "webcam" THEN devices ELSE form'[u] # None
  BY <1>4 DEF Typed, TypeOK
<1>6. ASSUME NEW u \in Tabs PROVE FormOK(u)'
  <2>1. FormOK(u) BY DEF Typed
  <2>q. QED BY <1>1, <1>2, <1>4, <2>1 DEF FormOK, Shown
<1>7. \A u \in Tabs : form'[u] # None => form'[u].editable \subseteq Groups(u)
  BY <1>4 DEF Typed, TypeOK
<1>8. TypeOK'
  BY <1>1, <1>2, <1>4, <1>5, <1>7 DEF Typed, TypeOK, TasksOK, MailOK
<1>q. QED BY <1>1, <1>2, <1>6, <1>8 DEF Typed

(* A step of a task or of the daemon leaves the screen alone. *)
LEMMA BehindTyped ==
  ASSUME Typed, UNCHANGED screen, UNCHANGED supported, TasksOK', MailOK',
         up' \in BOOLEAN, memory' \in [Tabs -> Content], hardware' \in [Tabs -> Values],
         alone' \in [Tabs -> BOOLEAN], failed' \in [Tabs -> BOOLEAN]
  PROVE  Typed'
<1>1. UNCHANGED <<caps, loaded, form, devices>> BY DEF screen
<1>q. QED BY <1>1 DEF Typed, TypeOK, FormOK, Shown, TasksOK, MailOK

LEMMA AnswersTyped ==
  ASSUME Typed, NEW t \in Tabs
  PROVE  Answers(t) \subseteq Content
<1>1. memory[t] \in Content /\ hardware[t] \in Values BY DEF Typed, TypeOK
<1>2. [memory[t] EXCEPT !["read"] = hardware[t]] \in Content BY <1>1 DEF Content
<1>q. QED BY <1>1, <1>2 DEF Answers

(* What a task is. *)
LEMMA TaskFacts ==
  ASSUME TasksOK, NEW i \in 1 .. Len(tasks)
  PROVE  /\ tasks[i] \in TaskType /\ TaskOK(tasks[i], devices)
         /\ tasks[i].content \in Content
         /\ tasks[i].kind = "caps" <=> tasks[i].tab = None
         /\ tasks[i].tab \in Tabs \cup {None}
<1>1. tasks[i] \in TaskType /\ TaskOK(tasks[i], devices) BY DEF TasksOK
<1>q. QED BY <1>1 DEF TaskType, TaskOK

(* The answer to a query. *)
LEMMA SendTyped ==
  ASSUME Typed, NEW i \in 1 .. Len(tasks), NEW d,
         Take(i), Send(tasks[i].tab, tasks[i].kind, d), UNCHANGED <<supported, devices>>,
         tasks[i].kind \in Queries,
         IF tasks[i].kind = "caps" THEN d = supported ELSE d \in Content
  PROVE  TasksOK' /\ MailOK'
<1> DEFINE n == [tab |-> tasks[i].tab, kind |-> tasks[i].kind, data |-> d]
<1>1. PICK m : m = n OBVIOUS
<1>2. mailbox' = Append(mailbox, m) /\ tasks' = RemoveAt(tasks, i)
  BY <1>1 DEF Send, Take
<1>3. /\ tasks[i].tab \in Tabs \cup {None} /\ TaskOK(tasks[i], devices)
      /\ tasks[i].kind = "caps" <=> tasks[i].tab = None
  BY TaskFacts DEF Typed
<1>4. m \in MessageType
  <2>1. CASE tasks[i].kind = "caps"
    BY <1>1, <1>3, <2>1 DEF MessageType
  <2>2. CASE tasks[i].kind # "caps"
    <3>1. tasks[i].tab \in Tabs /\ tasks[i].kind \in {"data", "devices"} /\ d \in Content
      BY <1>3, <2>2 DEF Queries
    <3>q. QED BY <1>1, <3>1 DEF MessageType
  <2>q. QED BY <2>1, <2>2
<1>5. MessageOK(m, devices) BY <1>1, <1>3 DEF MessageOK, TaskOK
<1>6. MailOK' BY <1>2, <1>4, <1>5, MailGrows DEF Typed
<1>7. TasksOK' BY <1>2, TasksShrink DEF Typed
<1>q. QED BY <1>6, <1>7

LEMMA FailTyped ==
  ASSUME Typed, NEW t, CallFails(t)
  PROVE  Typed'
<1>1. /\ TasksOK /\ MailOK /\ up \in BOOLEAN /\ memory \in [Tabs -> Content]
      /\ hardware \in [Tabs -> Values]
      /\ alone \in [Tabs -> BOOLEAN] /\ failed \in [Tabs -> BOOLEAN]
  BY DEF Typed, TypeOK
<1>2. UNCHANGED <<screen, up, memory, hardware, supported, devices, mailbox, alone>>
  BY DEF CallFails, daemon, screen
<1>3. PICK i \in 1 .. Len(tasks) : Take(i) BY DEF CallFails
<1>4. failed' \in [Tabs -> BOOLEAN] BY <1>1 DEF CallFails
<1>5. TasksOK' /\ MailOK' BY <1>1, <1>2, <1>3, TasksShrink, MailStays DEF Take
<1>q. QED BY <1>1, <1>2, <1>4, <1>5, BehindTyped

LEMMA RunTyped ==
  ASSUME Typed, NEW t \in Tabs, RunTask(t)
  PROVE  Typed'
<1>0. /\ TasksOK /\ MailOK /\ up \in BOOLEAN /\ memory \in [Tabs -> Content]
      /\ hardware \in [Tabs -> Values]
      /\ alone \in [Tabs -> BOOLEAN] /\ failed \in [Tabs -> BOOLEAN]
  BY DEF Typed, TypeOK
<1>1. CASE RunFetch(t)
  <2>1. UNCHANGED <<screen, up, memory, hardware, supported, devices, alone, failed>>
    BY <1>1 DEF RunFetch, daemon, history, screen
  <2>2. PICK i \in 1 .. Len(tasks) :
          /\ tasks[i].tab = t /\ Take(i)
          /\ \/ tasks[i].kind = "data" /\ \E c \in Answers(t) : Send(t, "data", c)
             \/ tasks[i].kind = "devices" /\ Send(t, "devices", Factory)
    BY <1>1 DEF RunFetch
  <2>3. CASE tasks[i].kind = "data" /\ \E c \in Answers(t) : Send(t, "data", c)
    <3>1. PICK c \in Answers(t) : Send(t, "data", c) BY <2>3
    <3>2. c \in Content BY AnswersTyped
    <3>3. TasksOK' /\ MailOK'
      BY <2>1, <2>2, <2>3, <3>1, <3>2, SendTyped DEF Queries
    <3>q. QED BY <1>0, <2>1, <3>3, BehindTyped
  <2>4. CASE tasks[i].kind = "devices" /\ Send(t, "devices", Factory)
    <3>1. TasksOK' /\ MailOK'
      BY <2>1, <2>2, <2>4, FactoryContent, SendTyped DEF Queries
    <3>q. QED BY <1>0, <2>1, <3>1, BehindTyped
  <2>q. QED BY <2>2, <2>3, <2>4
<1>2. CASE RunSave(t)
  <2>1. UNCHANGED <<screen, up, supported, devices, mailbox, alone, failed>>
    BY <1>2 DEF RunSave, history, screen
  <2>2. PICK i \in 1 .. Len(tasks) :
          /\ tasks[i].tab = t /\ Take(i)
          /\ \/ hardware' = [hardware EXCEPT ![t] = tasks[i].content["read"]]
             \/ UNCHANGED hardware
          /\ memory' = [memory EXCEPT ![t] = tasks[i].content]
    BY <1>2 DEF RunSave
  <2>3. tasks[i].content \in Content BY <1>0, TaskFacts
  <2>4. tasks[i].content["read"] \in Values BY <2>3 DEF Content
  <2>5. memory' \in [Tabs -> Content] /\ hardware' \in [Tabs -> Values]
    BY <1>0, <2>2, <2>3, <2>4
  <2>6. TasksOK' /\ MailOK' BY <1>0, <2>1, <2>2, TasksShrink, MailStays DEF Take
  <2>q. QED BY <1>0, <2>1, <2>5, <2>6, BehindTyped
<1>3. CASE CallFails(t) BY <1>3, FailTyped
<1>q. QED BY <1>1, <1>2, <1>3 DEF RunTask

LEMMA DaemonTyped ==
  ASSUME Typed, RunFetchCapabilities \/ Stop \/ Start
  PROVE  Typed'
<1>0. /\ TasksOK /\ MailOK /\ up \in BOOLEAN /\ memory \in [Tabs -> Content]
      /\ hardware \in [Tabs -> Values]
      /\ alone \in [Tabs -> BOOLEAN] /\ failed \in [Tabs -> BOOLEAN]
  BY DEF Typed, TypeOK
<1>1. CASE RunFetchCapabilities
  <2>1. UNCHANGED <<screen, up, memory, hardware, supported, devices, alone, failed>>
    BY <1>1 DEF RunFetchCapabilities, daemon, history, screen
  <2>2. PICK i \in 1 .. Len(tasks) : tasks[i].kind = "caps" /\ Take(i)
    BY <1>1 DEF RunFetchCapabilities
  <2>3. tasks[i].tab = None BY <1>0, <2>2, TaskFacts
  <2>4. Send(None, "caps", supported) BY <1>1 DEF RunFetchCapabilities
  <2>5. PICK d : d = supported OBVIOUS
  <2>6. TasksOK' /\ MailOK'
    BY <2>1, <2>2, <2>3, <2>4, <2>5, SendTyped DEF Queries
  <2>q. QED BY <1>0, <2>1, <2>6, BehindTyped
<1>2. CASE Stop
  <2>1. UNCHANGED <<screen, tasks, mailbox, hardware, supported, devices, failed>>
    BY <1>2 DEF Stop, screen
  <2>2. /\ up' \in BOOLEAN /\ memory' \in [Tabs -> Content] /\ alone' \in [Tabs -> BOOLEAN]
    BY <1>0, <1>2, FactoryContent DEF Stop
  <2>3. TasksOK' /\ MailOK' BY <1>0, <2>1, TasksStay, MailStays
  <2>q. QED BY <1>0, <2>1, <2>2, <2>3, BehindTyped
<1>3. CASE Start
  <2>1. UNCHANGED <<screen, tasks, mailbox, memory, hardware, supported, devices, alone, failed>>
    BY <1>3 DEF Start, screen, history
  <2>2. up' \in BOOLEAN BY <1>3 DEF Start
  <2>3. TasksOK' /\ MailOK' BY <1>0, <2>1, TasksStay, MailStays
  <2>q. QED BY <1>0, <2>1, <2>2, <2>3, BehindTyped
<1>q. QED BY <1>1, <1>2, <1>3

LEMMA ReceiveTyped ==
  ASSUME Typed, ReceiveData \/ ReceiveDevices \/ ReceiveCapabilities
  PROVE  Typed'
<1> DEFINE m == Head(mailbox)
<1>0. /\ TasksOK /\ MailOK /\ form \in [Tabs -> {None} \cup Form]
      /\ loaded \in [Tabs -> BOOLEAN] /\ caps \subseteq supported
      /\ supported \in SUBSET {"read", "kept"}
  BY DEF Typed, TypeOK
<1>1. /\ mailbox # << >> /\ mailbox' = Tail(mailbox)
      /\ UNCHANGED <<up, memory, hardware, supported, alone, failed>>
  BY DEF ReceiveData, ReceiveDevices, ReceiveCapabilities, Receive, daemon, history
<1>2. /\ MessageOK(m, devices)
      /\ m.kind = "caps" => m.data = supported
      /\ m.kind # "caps" => m.data \in Content /\ m.tab \in Tabs
  BY <1>0, <1>1, FirstMessage
<1>3. CASE ReceiveData
  <2> DEFINE t == m.tab
             f == ParseForm(t, m.data)
  <2>1. /\ m.kind = "data" /\ UNCHANGED <<caps, devices, tasks>>
        /\ form' = [form EXCEPT ![t] = f]
        /\ loaded' = [loaded EXCEPT ![t] = loaded[t] \/ t # "webcam"]
    BY <1>3 DEF ReceiveData, Receive
  <2>2. /\ m.data \in Content /\ t \in Tabs /\ (t = "webcam" => devices)
    BY <1>2, <2>1 DEF MessageOK
  <2> HIDE DEF m
  <2>3. /\ f \in Form /\ f.dirty = FALSE
        /\ f.editable = IF t = "charging" THEN caps ELSE Groups(t)
    BY <1>0, <2>2 DEF ParseForm, Form, Groups
  <2> HIDE DEF f, t
  <2>4. /\ form' \in [Tabs -> {None} \cup Form] /\ form'[t] = f /\ f # None
        /\ \A u \in Tabs : u # t => form'[u] = form[u] /\ loaded'[u] = loaded[u]
        /\ loaded'[t] = (loaded[t] \/ t # "webcam") /\ loaded' \in [Tabs -> BOOLEAN]
    BY <1>0, <2>1, <2>2, <2>3, NoTab
  <2>5. \A u \in Tabs : loaded'[u] = IF u = "webcam" THEN devices ELSE form'[u] # None
    BY <1>0, <2>2, <2>4 DEF Typed, TypeOK
  <2>6. f.editable \subseteq Groups(t) /\ f.editable \subseteq Shown(t)
    BY <1>0, <2>3 DEF Groups, Shown
  <2>7. \A u \in Tabs : form'[u] # None => form'[u].editable \subseteq Groups(u)
    BY <2>4, <2>6 DEF Typed, TypeOK
  <2>8. ASSUME NEW u \in Tabs PROVE FormOK(u)'
    <3>1. FormOK(u) BY DEF Typed
    <3>2. CASE u = t
      <4>1. loaded'[t] BY <2>2, <2>4, <2>5
      <4>q. QED BY <1>1, <2>3, <2>4, <2>6, <3>2, <4>1 DEF FormOK, Shown
    <3>3. CASE u # t BY <1>1, <2>4, <3>1, <3>3 DEF FormOK, Shown
    <3>q. QED BY <3>2, <3>3
  <2>9. TasksOK' /\ MailOK' BY <1>0, <1>1, <2>1, TasksStay, MailShrinks
  <2>10. TypeOK'
    BY <1>1, <2>1, <2>4, <2>5, <2>7, <2>9 DEF Typed, TypeOK, TasksOK, MailOK
  <2>q. QED BY <1>1, <2>1, <2>8, <2>9, <2>10 DEF Typed
<1>4. CASE ReceiveDevices
  <2>1. /\ m.kind = "devices" /\ UNCHANGED <<caps, form>> /\ devices' = TRUE
        /\ tasks' = Append(tasks, Task("data", "webcam"))
        /\ loaded' = [loaded EXCEPT !["webcam"] = TRUE]
    BY <1>4 DEF ReceiveDevices, Receive
  <2>2. "webcam" \in Tabs BY <1>2, <2>1 DEF MessageOK
  <2>3. /\ Task("data", "webcam") \in TaskType /\ Task("data", "webcam").kind = "data"
        /\ Task("data", "webcam").tab = "webcam" /\ "webcam" # None
    BY <2>2, NewTask, NoTab
  <2>4. TasksOK' BY <1>0, <2>1, <2>3, TasksGrow
  <2>5. MailOK' BY <1>0, <1>1, <2>1, MailShrinks
  <2>6. /\ loaded' \in [Tabs -> BOOLEAN] /\ loaded'["webcam"] = TRUE
        /\ \A u \in Tabs : u # "webcam" => loaded'[u] = loaded[u]
    BY <1>0, <2>1, <2>2
  <2>7. TypeOK' BY <1>1, <2>1, <2>4, <2>5, <2>6 DEF Typed, TypeOK, TasksOK, MailOK
  <2>8. ASSUME NEW u \in Tabs PROVE FormOK(u)'
    <3>1. FormOK(u) BY DEF Typed
    <3>q. QED BY <1>1, <2>1, <2>6, <3>1 DEF FormOK, Shown
  <2>q. QED BY <1>1, <2>1, <2>4, <2>5, <2>7, <2>8 DEF Typed
<1>5. CASE ReceiveCapabilities
  <2>1. /\ m.kind = "caps" /\ caps' = m.data /\ UNCHANGED <<loaded, form, devices>>
        /\ \/ tasks' = tasks
           \/ "charging" \in Tabs /\ tasks' = Append(tasks, Task("data", "charging"))
    BY <1>5 DEF ReceiveCapabilities, Receive
  <2>2. caps' = supported BY <1>2, <2>1
  <2>3. TasksOK'
    <3>1. CASE tasks' = tasks BY <1>0, <2>1, <3>1, TasksStay
    <3>2. CASE "charging" \in Tabs /\ tasks' = Append(tasks, Task("data", "charging"))
      <4>1. /\ Task("data", "charging") \in TaskType /\ Task("data", "charging").kind = "data"
            /\ Task("data", "charging").tab = "charging" /\ "charging" # None
        BY <3>2, NewTask, NoTab
      <4>q. QED BY <1>0, <2>1, <3>2, <4>1, TasksGrow
    <3>q. QED BY <2>1, <3>1, <3>2
  <2>4. MailOK' BY <1>0, <1>1, <2>1, MailShrinks
  <2>5. TypeOK' BY <1>0, <1>1, <2>1, <2>2, <2>3, <2>4 DEF Typed, TypeOK, TasksOK, MailOK
  <2>6. ASSUME NEW u \in Tabs PROVE FormOK(u)'
    <3>1. FormOK(u) BY DEF Typed
    <3>q. QED BY <1>1, <2>1, <3>1 DEF FormOK, Shown
  <2>q. QED BY <1>1, <2>2, <2>3, <2>4, <2>5, <2>6 DEF Typed
<1>q. QED BY <1>3, <1>4, <1>5

LEMMA NextTyped == Typed /\ [Next]_vars => Typed'
<1> SUFFICES ASSUME Typed, [Next]_vars PROVE Typed' OBVIOUS
<1>1. CASE UNCHANGED vars
  <2>1. UNCHANGED <<screen, tasks, mailbox, up, memory, hardware, supported, devices, alone, failed>>
    BY <1>1 DEF vars, screen, daemon, history
  <2>2. TasksOK' /\ MailOK' BY <2>1, TasksStay, MailStays DEF Typed
  <2>3. /\ up \in BOOLEAN /\ memory \in [Tabs -> Content] /\ hardware \in [Tabs -> Values]
        /\ alone \in [Tabs -> BOOLEAN] /\ failed \in [Tabs -> BOOLEAN]
    BY DEF Typed, TypeOK
  <2>q. QED BY <2>1, <2>2, <2>3, BehindTyped
<1>2. CASE Next
  BY <1>2, KeyTyped, SwitchTyped, RunTyped, FailTyped, DaemonTyped, ReceiveTyped DEF Next
<1>q. QED BY <1>1, <1>2

LEMMA InitTyped == Init => Typed
<1> SUFFICES ASSUME Init PROVE Typed OBVIOUS
<1>1. /\ caps = {} /\ devices = FALSE /\ mailbox = << >> /\ up = TRUE
      /\ loaded = [t \in Tabs |-> FALSE] /\ form = [t \in Tabs |-> None]
      /\ tasks = <<Task("caps", None)>> /\ memory = [t \in Tabs |-> Factory]
      /\ hardware \in [Tabs -> Values] /\ supported \in SUBSET {"read", "kept"}
      /\ alone = [t \in Tabs |-> FALSE] /\ failed = [t \in Tabs |-> FALSE]
  BY DEF Init
<1>2. /\ Task("caps", None) \in TaskType
      /\ Task("caps", None).kind = "caps" /\ Task("caps", None).tab = None
  BY NewTask
<1>3. TasksOK
  <2>1. TaskOK(Task("caps", None), devices) BY <1>2 DEF TaskOK
  <2> DEFINE k == Task("caps", None)
  <2> HIDE DEF k
  <2>2. tasks = <<k>> BY <1>1 DEF k
  <2>3. k \in TaskType BY <1>2 DEF k
  <2>4. tasks \in Seq(TaskType) /\ \A i \in 1 .. Len(tasks) : tasks[i] = k
    BY <2>2, <2>3
  <2>q. QED BY <2>1, <2>4 DEF TasksOK, k
<1>4. MailOK BY <1>1 DEF MailOK
<1>5. TypeOK
  BY <1>1, <1>3, <1>4, FactoryContent DEF TypeOK, TasksOK, MailOK
<1>6. \A t \in Tabs : FormOK(t) BY <1>1 DEF FormOK
<1>q. QED BY <1>1, <1>3, <1>4, <1>5, <1>6 DEF Typed

(* The variables keep their types, and a tab that will not ask has its form
   (TypeOK). *)
THEOREM TypeCorrect == Spec => []TypeOK
<1>1. Typed => TypeOK BY DEF Typed
<1>q. QED BY <1>1, InitTyped, NextTyped, PTL DEF Spec

-----------------------------------------------------------------------------
(* Every step keeps the invariant. *)

(* A tab of which nothing changes but what goes away. *)
LEMMA Untouched ==
  ASSUME NEW u \in Tabs, AloneOK(u), alone'[u] => alone[u], form'[u] = form[u],
         Once(tasks, mailbox, u) => Once(tasks', mailbox', u),
         Asked(tasks', mailbox', u) => Asked(tasks, mailbox, u),
         Asked(tasks', mailbox', None) => Asked(tasks, mailbox, None),
         Some(tasks', u, Saves) => Some(tasks, u, Saves)
  PROVE  AloneOK(u)'
BY DEF AloneOK

LEMMA CapsUntouched ==
  ASSUME CapsFirst, UNCHANGED caps,
         Once(tasks, mailbox, None) => Once(tasks', mailbox', None),
         Asked(tasks', mailbox', None) => Asked(tasks, mailbox, None),
         "charging" \in Tabs =>
           /\ form'["charging"] = form["charging"] \/ form'["charging"] = None
           /\ Some(tasks', "charging", Saves) => Some(tasks, "charging", Saves)
  PROVE  CapsFirst'
BY DEF CapsFirst

(* What a key that asks does to the queues, and to the history. *)
LEMMA AskEffect ==
  ASSUME Typed, NEW t \in Tabs, NEW kind \in {"data", "devices"}, Ask(t, kind)
  PROVE  /\ \A u : /\ Asked(tasks', mailbox', u) <=> Asked(tasks, mailbox, u) \/ u = t
                   /\ Some(tasks', u, Saves) <=> Some(tasks, u, Saves)
                   /\ u # t /\ Once(tasks, mailbox, u) => Once(tasks', mailbox', u)
         /\ ~ Asked(tasks, mailbox, t) => Once(tasks', mailbox', t)
         /\ \A u \in Tabs : u # t => alone'[u] = alone[u]
         /\ alone'[t] => ~ Asked(tasks, mailbox, t) /\ ~ Some(tasks, t, Saves)
<1>1. /\ tasks' = Append(tasks, Task(kind, t)) /\ mailbox' = mailbox
      /\ alone' = [alone EXCEPT ![t] = ~ Fetching(t) /\ ~ Saving(t)]
  BY DEF Ask, Spawn
<1>2. tasks \in Seq(TaskType) /\ alone \in [Tabs -> BOOLEAN] BY Parts
<1>3. Task(kind, t).kind = kind /\ Task(kind, t).tab = t BY NewTask
<1> DEFINE k == Task(kind, t)
<1>4. kind \in Queries /\ kind \notin Saves BY DEF Queries, Saves
<1>5. ASSUME NEW u
      PROVE  /\ Asked(tasks', mailbox', u) <=> Asked(tasks, mailbox, u) \/ u = t
             /\ Some(tasks', u, Saves) <=> Some(tasks, u, Saves)
             /\ u # t /\ Once(tasks, mailbox, u) => Once(tasks', mailbox', u)
             /\ u = t /\ ~ Asked(tasks, mailbox, u) => Once(tasks', mailbox', u)
  <2>1. /\ k.tab = t /\ k.kind \in Queries /\ ~ k.kind \in Saves BY <1>3, <1>4
  <2>2. tasks' = Append(tasks, k) BY <1>1
  <2> HIDE DEF k
  <2>3. ~ Asked(tasks, mailbox, u) => Single(mailbox, u, Queries)
    BY DEF Asked, Some, Single
  <2>q. QED BY <1>1, <1>2, <2>1, <2>2, <2>3, Spawned
<1>6. /\ \A u \in Tabs : u # t => alone'[u] = alone[u]
      /\ alone'[t] = (~ Fetching(t) /\ ~ Saving(t))
  BY <1>1, <1>2
<1>q. QED BY <1>5, <1>6, UnderWay

LEMMA AskKeeps ==
  ASSUME IInv, NEW t \in Tabs, NEW kind \in {"data", "devices"}, Ask(t, kind),
         form'[t] = None, \A u \in Tabs : u # t => form'[u] = form[u], UNCHANGED caps
  PROVE  CapsFirst' /\ \A u \in Tabs : AloneOK(u)'
<1>1. Typed /\ CapsFirst /\ \A u \in Tabs : AloneOK(u) BY DEF IInv
<1>2. /\ \A u : /\ Asked(tasks', mailbox', u) <=> Asked(tasks, mailbox, u) \/ u = t
                /\ Some(tasks', u, Saves) <=> Some(tasks, u, Saves)
                /\ u # t /\ Once(tasks, mailbox, u) => Once(tasks', mailbox', u)
      /\ ~ Asked(tasks, mailbox, t) => Once(tasks', mailbox', t)
      /\ \A u \in Tabs : u # t => alone'[u] = alone[u]
      /\ alone'[t] => ~ Asked(tasks, mailbox, t) /\ ~ Some(tasks, t, Saves)
  BY <1>1, AskEffect
<1>3. t # None BY NoTab
<1>4. CapsFirst' BY <1>1, <1>2, <1>3, CapsUntouched
<1>5. ASSUME NEW u \in Tabs PROVE AloneOK(u)'
  <2>1. CASE u = t
    <3>1. alone'[t] => Once(tasks', mailbox', t) /\ ~ Some(tasks', t, Saves) BY <1>2
    <3>q. QED BY <2>1, <3>1 DEF AloneOK
  <2>2. CASE u # t BY <1>1, <1>2, <1>3, <2>2, Untouched
  <2>q. QED BY <2>1, <2>2
<1>q. QED BY <1>4, <1>5

(* Keys: the tab is shown, a field changes, the form is sent or thrown away. *)
LEMMA ShowKeeps ==
  ASSUME IInv, NEW t \in Tabs, ShowTab(t)
  PROVE  CapsFirst' /\ \A u \in Tabs : AloneOK(u)'
<1>1. Ask(t, First(t)) /\ UNCHANGED <<caps, form>> /\ ~ loaded[t]
  BY DEF ShowTab, screen
<1>2. First(t) \in {"data", "devices"} BY DEF First
<1>3. FormOK(t) BY DEF IInv, Typed
<1>4. form[t] = None BY <1>1, <1>3 DEF FormOK
<1>q. QED BY <1>1, <1>2, <1>4, AskKeeps

LEMMA EditKeeps ==
  ASSUME IInv, NEW t \in Tabs, EditField(t)
  PROVE  CapsFirst' /\ \A u \in Tabs : AloneOK(u)'
<1>0. Typed /\ CapsFirst /\ \A u \in Tabs : AloneOK(u) BY DEF IInv
<1>1. UNCHANGED <<caps, tasks, mailbox, alone>> /\ form[t] # None
  BY DEF EditField, history
<1>2. PICK g \in form[t].editable, v \in Values :
        form' = [form EXCEPT ![t].content[g] = v, ![t].dirty = TRUE]
  BY DEF EditField
<1>3. form \in [Tabs -> {None} \cup Form] /\ form[t] \in Form
  BY <1>0, <1>1, Parts
<1>4. /\ form'[t].editable = form[t].editable /\ form'[t].dirty = TRUE
      /\ \A u \in Tabs : u # t => form'[u] = form[u]
  BY <1>2, <1>3 DEF Form
<1>5. form[t].editable # {} BY <1>2
<1>6. CapsFirst'
  <2>1. Asked(tasks, mailbox, None) => t # "charging"
    BY <1>0, <1>1, <1>5 DEF CapsFirst
  <2>q. QED BY <1>0, <1>1, <1>4, <2>1 DEF CapsFirst
<1>7. ASSUME NEW u \in Tabs PROVE AloneOK(u)'
  <2>1. CASE u = t
    <3>1. alone[t] => ~ Asked(tasks, mailbox, t) BY <1>0, <1>1, <1>5 DEF AloneOK
    <3>q. QED BY <1>0, <1>1, <1>4, <2>1, <3>1 DEF AloneOK
  <2>2. CASE u # t BY <1>0, <1>1, <1>4, <2>2, Untouched
  <2>q. QED BY <2>1, <2>2
<1>q. QED BY <1>6, <1>7

LEMMA SaveKeeps ==
  ASSUME IInv, NEW t \in Tabs, SaveForm(t)
  PROVE  CapsFirst' /\ \A u \in Tabs : AloneOK(u)'
<1>0. Typed /\ CapsFirst /\ \A u \in Tabs : AloneOK(u) BY DEF IInv
<1> DEFINE c == ToJson(form[t])
           k == [Task("save", t) EXCEPT !.content = c]
<1>1. /\ UNCHANGED <<caps, form, mailbox, alone>>
      /\ form[t] # None /\ form[t].dirty /\ tasks' = Append(tasks, k)
  BY DEF SaveForm, Spawn, screen, history
<1>2. tasks \in Seq(TaskType) BY <1>0, Parts
<1>3. form[t].editable # {}
  <2>1. FormOK(t) BY <1>0 DEF Typed
  <2>q. QED BY <1>1, <2>1 DEF FormOK
<1> HIDE DEF c
<1>4. k.tab = t /\ k.kind \in Saves /\ k.kind \notin Queries
  BY DEF Task, Saves, Queries
<1> HIDE DEF k
<1>5. ASSUME NEW u
      PROVE  /\ Asked(tasks', mailbox', u) <=> Asked(tasks, mailbox, u)
             /\ Some(tasks', u, Saves) <=> Some(tasks, u, Saves) \/ u = t
             /\ Once(tasks, mailbox, u) => Once(tasks', mailbox', u)
  BY <1>1, <1>2, <1>4, Spawned
<1>6. CapsFirst'
  <2>1. Asked(tasks, mailbox, None) => t # "charging"
    BY <1>0, <1>1, <1>3 DEF CapsFirst
  <2>q. QED BY <1>0, <1>1, <1>5, <2>1, CapsUntouched DEF CapsFirst
<1>7. ASSUME NEW u \in Tabs PROVE AloneOK(u)'
  <2>1. CASE u = t
    <3>1. alone[t] => ~ Asked(tasks, mailbox, t) BY <1>0, <1>1, <1>3 DEF AloneOK
    <3>q. QED BY <1>0, <1>1, <1>5, <2>1, <3>1 DEF AloneOK
  <2>2. CASE u # t BY <1>0, <1>1, <1>5, <2>2, Untouched
  <2>q. QED BY <2>1, <2>2
<1>q. QED BY <1>6, <1>7

LEMMA DiscardKeeps ==
  ASSUME IInv, NEW t \in Tabs, DiscardForm(t)
  PROVE  CapsFirst' /\ \A u \in Tabs : AloneOK(u)'
<1>0. Typed /\ CapsFirst /\ \A u \in Tabs : AloneOK(u) BY DEF IInv
<1>1. /\ UNCHANGED <<caps, tasks, mailbox, alone>>
      /\ form' = [form EXCEPT ![t] = None]
  BY DEF DiscardForm, history
<1>2. form'[t] = None /\ \A u \in Tabs : u # t => form'[u] = form[u]
  BY <1>0, <1>1, Parts
<1>3. CapsFirst' BY <1>0, <1>1, <1>2, CapsUntouched
<1>4. ASSUME NEW u \in Tabs PROVE AloneOK(u)'
  <2>1. CASE u = t BY <1>0, <1>1, <1>2, <2>1 DEF AloneOK
  <2>2. CASE u # t BY <1>0, <1>1, <1>2, <2>2, Untouched
  <2>q. QED BY <2>1, <2>2
<1>q. QED BY <1>3, <1>4

LEMMA SwitchKeeps ==
  ASSUME IInv, SwitchDevice
  PROVE  CapsFirst' /\ \A u \in Tabs : AloneOK(u)'
<1>1. /\ "webcam" \in Tabs /\ UNCHANGED caps
      /\ form' = [form EXCEPT !["webcam"] = None] /\ Ask("webcam", "data")
  BY DEF SwitchDevice
<1>2. form'["webcam"] = None /\ \A u \in Tabs : u # "webcam" => form'[u] = form[u]
  BY <1>1, Parts DEF IInv
<1>q. QED BY <1>1, <1>2, AskKeeps

(* The tasks and the daemon: an answer takes the place of its question. *)
LEMMA RunKeeps ==
  ASSUME IInv, NEW t \in Tabs, RunTask(t)
  PROVE  CapsFirst' /\ \A u \in Tabs : AloneOK(u)'
<1>0. /\ Typed /\ CapsFirst /\ \A u \in Tabs : AloneOK(u)
      /\ tasks \in Seq(TaskType) /\ mailbox \in Seq(MessageType)
  BY Parts DEF IInv
<1>1. UNCHANGED <<caps, form, alone>>
  BY DEF RunTask, RunFetch, RunSave, CallFails, screen, history
<1>2. /\ \A u : /\ Asked(tasks', mailbox', u) => Asked(tasks, mailbox, u)
                /\ Some(tasks', u, Saves) => Some(tasks, u, Saves)
                /\ Once(tasks, mailbox, u) => Once(tasks', mailbox', u)
  <2>1. CASE RunFetch(t)
    <3>1. PICK i \in 1 .. Len(tasks) :
            /\ tasks[i].tab = t /\ Take(i)
            /\ \/ tasks[i].kind = "data" /\ \E c \in Answers(t) : Send(t, "data", c)
               \/ tasks[i].kind = "devices" /\ Send(t, "devices", Factory)
      BY <2>1 DEF RunFetch
    <3>2. /\ tasks[i].kind \in Queries
          /\ \E c : Send(t, tasks[i].kind, c)
      BY <3>1 DEF Queries
    <3>3. PICK c : Send(t, tasks[i].kind, c) BY <3>2
    <3>4. PICK m : m = [tab |-> t, kind |-> tasks[i].kind, data |-> c] OBVIOUS
    <3>5. /\ mailbox' = Append(mailbox, m) /\ tasks' = RemoveAt(tasks, i)
          /\ m.tab = tasks[i].tab /\ m.kind \in Queries
      BY <3>1, <3>2, <3>3, <3>4 DEF Send, Take
    <3>q. QED BY <1>0, <3>2, <3>5, Answered
  <2>2. CASE RunSave(t) \/ CallFails(t)
    <3>1. UNCHANGED mailbox BY <2>2 DEF RunSave, CallFails
    <3>2. PICK i \in 1 .. Len(tasks) : tasks' = RemoveAt(tasks, i)
      BY <2>2 DEF RunSave, CallFails, Take
    <3>q. QED BY <1>0, <3>1, <3>2, Finished
  <2>q. QED BY <2>1, <2>2 DEF RunTask
<1>3. CapsFirst' BY <1>0, <1>1, <1>2, CapsUntouched
<1>4. \A u \in Tabs : AloneOK(u)' BY <1>0, <1>1, <1>2, Untouched
<1>q. QED BY <1>3, <1>4

LEMMA DaemonKeeps ==
  ASSUME IInv, RunFetchCapabilities \/ CallFails(None) \/ Stop \/ Start
  PROVE  CapsFirst' /\ \A u \in Tabs : AloneOK(u)'
<1>0. /\ Typed /\ CapsFirst /\ \A u \in Tabs : AloneOK(u)
      /\ tasks \in Seq(TaskType) /\ mailbox \in Seq(MessageType)
  BY Parts DEF IInv
<1>1. UNCHANGED <<caps, form>>
  BY DEF RunFetchCapabilities, CallFails, Stop, Start, screen
<1>2. \A u \in Tabs : alone'[u] => alone[u]
  BY DEF RunFetchCapabilities, CallFails, Stop, Start, history
<1>3. /\ \A u : /\ Asked(tasks', mailbox', u) => Asked(tasks, mailbox, u)
                /\ Some(tasks', u, Saves) => Some(tasks, u, Saves)
                /\ Once(tasks, mailbox, u) => Once(tasks', mailbox', u)
  <2>1. CASE RunFetchCapabilities
    <3>1. PICK i \in 1 .. Len(tasks) : tasks[i].kind = "caps" /\ Take(i)
      BY <2>1 DEF RunFetchCapabilities
    <3>2. tasks[i].tab = None BY <1>0, <3>1, TaskFacts DEF Typed
    <3>3. PICK m : m = [tab |-> None, kind |-> "caps", data |-> supported] OBVIOUS
    <3>4. /\ mailbox' = Append(mailbox, m) /\ tasks' = RemoveAt(tasks, i)
          /\ m.tab = tasks[i].tab /\ m.kind \in Queries /\ tasks[i].kind \in Queries
      BY <2>1, <3>1, <3>2, <3>3 DEF RunFetchCapabilities, Send, Take, Queries
    <3>q. QED BY <1>0, <3>4, Answered
  <2>2. CASE CallFails(None)
    <3>1. UNCHANGED mailbox BY <2>2 DEF CallFails
    <3>2. PICK i \in 1 .. Len(tasks) : tasks' = RemoveAt(tasks, i)
      BY <2>2 DEF CallFails, Take
    <3>q. QED BY <1>0, <3>1, <3>2, Finished
  <2>3. CASE Stop \/ Start BY <2>3 DEF Stop, Start
  <2>q. QED BY <2>1, <2>2, <2>3
<1>4. CapsFirst' BY <1>0, <1>1, <1>3, CapsUntouched
<1>5. \A u \in Tabs : AloneOK(u)' BY <1>0, <1>1, <1>2, <1>3, Untouched
<1>q. QED BY <1>4, <1>5

(* Messages.  Of a tab that was asked for alone, none is left behind the one
   that is taken. *)
LEMMA TakenBy ==
  ASSUME Typed, mailbox # << >>
  PROVE  /\ Head(mailbox).kind \in Queries
         /\ \A u : /\ Asked(tasks, Tail(mailbox), u) => Asked(tasks, mailbox, u)
                   /\ Once(tasks, mailbox, u) => Once(tasks, Tail(mailbox), u)
         /\ Asked(tasks, mailbox, Head(mailbox).tab)
         /\ Once(tasks, mailbox, Head(mailbox).tab)
              => ~ Asked(tasks, Tail(mailbox), Head(mailbox).tab)
<1>1. mailbox \in Seq(MessageType) /\ MailOK BY Parts DEF Typed
<1>2. Head(mailbox).kind \in Queries BY <1>1, FirstMessage
<1>q. QED BY <1>1, <1>2, Taken

(* A task for data of t, on which nothing is under way. *)
LEMMA AskedAgain ==
  ASSUME Typed, NEW ms, NEW t \in Tabs, tasks' = Append(tasks, Task("data", t))
  PROVE  /\ \A u : /\ Asked(tasks', ms, u) <=> Asked(tasks, ms, u) \/ u = t
                   /\ Some(tasks', u, Saves) <=> Some(tasks, u, Saves)
                   /\ u # t /\ Once(tasks, ms, u) => Once(tasks', ms, u)
         /\ ~ Asked(tasks, ms, t) => Once(tasks', ms, t)
<1>1. tasks \in Seq(TaskType) BY Parts
<1> DEFINE k == Task("data", t)
<1>2. k.tab = t /\ k.kind \in Queries /\ k.kind \notin Saves
  BY NewTask DEF Queries, Saves
<1>3. tasks' = Append(tasks, k) OBVIOUS
<1> HIDE DEF k
<1>4. ~ Asked(tasks, ms, t) => Single(ms, t, Queries) BY DEF Asked, Some, Single
<1>q. QED BY <1>1, <1>2, <1>3, <1>4, Spawned

LEMMA DataKeeps ==
  ASSUME IInv, ReceiveData
  PROVE  CapsFirst' /\ \A u \in Tabs : AloneOK(u)'
<1>0. Typed /\ CapsFirst /\ \A u \in Tabs : AloneOK(u) BY DEF IInv
<1> DEFINE t == Head(mailbox).tab
           f == ParseForm(t, Head(mailbox).data)
<1>1. /\ mailbox # << >> /\ mailbox' = Tail(mailbox) /\ Head(mailbox).kind = "data"
      /\ UNCHANGED <<caps, tasks, alone>> /\ form' = [form EXCEPT ![t] = f]
  BY DEF ReceiveData, Receive, history
<1>2. t \in Tabs
  <2>1. MailOK BY <1>0 DEF Typed
  <2>q. QED BY <1>1, <2>1, FirstMessage
<1>3. /\ \A u : /\ Asked(tasks', mailbox', u) => Asked(tasks, mailbox, u)
                /\ Once(tasks, mailbox, u) => Once(tasks', mailbox', u)
                /\ Some(tasks', u, Saves) => Some(tasks, u, Saves)
      /\ Asked(tasks, mailbox, t)
      /\ Once(tasks, mailbox, t) => ~ Asked(tasks', mailbox', t)
  BY <1>0, <1>1, TakenBy
<1>4. f.editable = IF t = "charging" THEN caps ELSE Groups(t) BY DEF ParseForm
<1> HIDE DEF f, t
<1>5. form'[t] = f /\ \A u \in Tabs : u # t => form'[u] = form[u]
  BY <1>0, <1>1, <1>2, Parts
<1>6. CapsFirst'
  <2>1. CASE t = "charging" BY <1>0, <1>1, <1>3, <1>4, <1>5, <2>1 DEF CapsFirst
  <2>2. CASE t # "charging" BY <1>0, <1>1, <1>3, <1>5, <2>2, CapsUntouched
  <2>q. QED BY <2>1, <2>2
<1>7. ASSUME NEW u \in Tabs PROVE AloneOK(u)'
  <2>1. CASE u = t BY <1>0, <1>1, <1>3, <2>1 DEF AloneOK
  <2>2. CASE u # t BY <1>0, <1>1, <1>3, <1>5, <2>2, Untouched
  <2>q. QED BY <2>1, <2>2
<1>q. QED BY <1>6, <1>7

LEMMA DevicesKeep ==
  ASSUME IInv, ReceiveDevices
  PROVE  CapsFirst' /\ \A u \in Tabs : AloneOK(u)'
<1>0. Typed /\ CapsFirst /\ \A u \in Tabs : AloneOK(u) BY DEF IInv
<1>1. /\ mailbox # << >> /\ mailbox' = Tail(mailbox) /\ Head(mailbox).kind = "devices"
      /\ UNCHANGED <<caps, form, alone>> /\ tasks' = Append(tasks, Task("data", "webcam"))
  BY DEF ReceiveDevices, Receive, history
<1>2. Head(mailbox).tab = "webcam" /\ "webcam" \in Tabs /\ "webcam" # None
  <2>1. MailOK BY <1>0 DEF Typed
  <2>q. QED BY <1>1, <2>1, FirstMessage, NoTab DEF MessageOK
<1>3. /\ \A u : /\ Asked(tasks, mailbox', u) => Asked(tasks, mailbox, u)
                /\ Once(tasks, mailbox, u) => Once(tasks, mailbox', u)
      /\ Asked(tasks, mailbox, "webcam")
      /\ Once(tasks, mailbox, "webcam") => ~ Asked(tasks, mailbox', "webcam")
  BY <1>0, <1>1, <1>2, TakenBy
<1>4. /\ \A u : /\ Asked(tasks', mailbox', u) <=> Asked(tasks, mailbox', u) \/ u = "webcam"
                /\ Some(tasks', u, Saves) <=> Some(tasks, u, Saves)
                /\ u # "webcam" /\ Once(tasks, mailbox', u) => Once(tasks', mailbox', u)
      /\ ~ Asked(tasks, mailbox', "webcam") => Once(tasks', mailbox', "webcam")
  BY <1>0, <1>1, <1>2, AskedAgain
<1>5. CapsFirst' BY <1>0, <1>1, <1>2, <1>3, <1>4, CapsUntouched
<1>6. ASSUME NEW u \in Tabs PROVE AloneOK(u)'
  <2>1. CASE u = "webcam"
    <3>1. alone["webcam"] =>
            /\ Once(tasks', mailbox', "webcam")
            /\ form["webcam"] = None
            /\ ~ Some(tasks', "webcam", Saves)
      BY <1>0, <1>2, <1>3, <1>4 DEF AloneOK
    <3>q. QED BY <1>1, <2>1, <3>1 DEF AloneOK
  <2>2. CASE u # "webcam" BY <1>0, <1>1, <1>2, <1>3, <1>4, <2>2, Untouched
  <2>q. QED BY <2>1, <2>2
<1>q. QED BY <1>5, <1>6

LEMMA CapabilitiesKeep ==
  ASSUME IInv, ReceiveCapabilities
  PROVE  CapsFirst' /\ \A u \in Tabs : AloneOK(u)'
<1>0. Typed /\ CapsFirst /\ \A u \in Tabs : AloneOK(u) BY DEF IInv
<1> DEFINE again == "charging" \in Tabs /\ loaded["charging"]
<1>1. /\ mailbox # << >> /\ mailbox' = Tail(mailbox) /\ Head(mailbox).kind = "caps"
      /\ UNCHANGED <<form, alone>>
      /\ tasks' = IF again THEN Append(tasks, Task("data", "charging")) ELSE tasks
  BY DEF ReceiveCapabilities, Receive, history
<1>2. Head(mailbox).tab = None
  <2>1. MailOK BY <1>0 DEF Typed
  <2>q. QED BY <1>1, <2>1, FirstMessage
<1>3. /\ \A u : /\ Asked(tasks, mailbox', u) => Asked(tasks, mailbox, u)
                /\ Once(tasks, mailbox, u) => Once(tasks, mailbox', u)
      /\ Asked(tasks, mailbox, None)
      /\ Once(tasks, mailbox, None) => ~ Asked(tasks, mailbox', None)
  BY <1>0, <1>1, <1>2, TakenBy
<1>4. /\ \A u : /\ Asked(tasks', mailbox', u)
                     <=> Asked(tasks, mailbox', u) \/ (again /\ u = "charging")
                /\ Some(tasks', u, Saves) <=> Some(tasks, u, Saves)
                /\ ~ (again /\ u = "charging") /\ Once(tasks, mailbox', u)
                     => Once(tasks', mailbox', u)
      /\ ~ Asked(tasks, mailbox', "charging") /\ again => Once(tasks', mailbox', "charging")
  <2>1. CASE again
    <3>1. tasks' = Append(tasks, Task("data", "charging")) /\ "charging" \in Tabs
      BY <1>1, <2>1
    <3>q. QED BY <1>0, <2>1, <3>1, AskedAgain
  <2>2. CASE ~ again
    <3>1. tasks' = tasks BY <1>1, <2>2
    <3>q. QED BY <2>2, <3>1
  <2>q. QED BY <2>1, <2>2
<1>5. "charging" # None \/ ~ again BY NoTab
<1>6. ~ Asked(tasks', mailbox', None) /\ Once(tasks', mailbox', None)
  BY <1>0, <1>3, <1>4, <1>5 DEF CapsFirst
<1>7. CapsFirst' BY <1>6 DEF CapsFirst
<1>8. ASSUME NEW u \in Tabs PROVE AloneOK(u)'
  <2>1. CASE again /\ u = "charging"
    <3>1. form["charging"] # None
      <4>1. loaded["charging"] = IF "charging" = "webcam" THEN devices ELSE form["charging"] # None
        BY <1>0, <2>1, Parts
      <4>q. QED BY <2>1, <4>1
    <3>2. form["charging"].editable = {} /\ ~ Some(tasks, "charging", Saves)
      BY <1>0, <1>3, <2>1, <3>1 DEF CapsFirst
    <3>3. alone["charging"] => ~ Asked(tasks, mailbox, "charging")
      BY <1>0, <1>3, <2>1, <3>1 DEF AloneOK
    <3>4. alone["charging"] => Once(tasks', mailbox', "charging") BY <1>3, <1>4, <2>1, <3>3
    <3>q. QED BY <1>1, <1>4, <1>6, <2>1, <3>2, <3>4 DEF AloneOK
  <2>2. CASE ~ (again /\ u = "charging") BY <1>0, <1>1, <1>3, <1>4, <2>2, Untouched
  <2>q. QED BY <2>1, <2>2
<1>q. QED BY <1>7, <1>8

LEMMA NextKeeps == IInv /\ [Next]_vars => IInv'
<1> SUFFICES ASSUME IInv, [Next]_vars PROVE IInv' OBVIOUS
<1>1. Typed' BY NextTyped DEF IInv
<1>2. CapsFirst' /\ \A u \in Tabs : AloneOK(u)'
  <2>1. CASE UNCHANGED vars
    BY <2>1 DEF IInv, CapsFirst, AloneOK, vars, screen, history
  <2>2. CASE Next
    BY <2>2, ShowKeeps, EditKeeps, SaveKeeps, DiscardKeeps, SwitchKeeps, RunKeeps,
       DaemonKeeps, DataKeeps, DevicesKeep, CapabilitiesKeep DEF Next, Key
  <2>q. QED BY <2>1, <2>2
<1>q. QED BY <1>1, <1>2 DEF IInv

LEMMA InitInv == Init => IInv
<1> SUFFICES ASSUME Init PROVE IInv OBVIOUS
<1>1. /\ caps = {} /\ mailbox = << >> /\ tasks = <<Task("caps", None)>>
      /\ form = [t \in Tabs |-> None] /\ alone = [t \in Tabs |-> FALSE]
  BY DEF Init
<1>2. Task("caps", None).kind = "caps" BY DEF Task
<1> DEFINE k == Task("caps", None)
<1> HIDE DEF k
<1>3. /\ \A i \in 1 .. Len(tasks) : i = 1 /\ tasks[i].kind = "caps"
      /\ 1 .. Len(mailbox) = {}
  <2>1. tasks = <<k>> /\ k.kind = "caps" BY <1>1, <1>2 DEF k
  <2>2. Len(<<k>>) = 1 /\ <<k>>[1] = k OBVIOUS
  <2>q. QED BY <1>1, <2>1, <2>2
<1>4. CapsFirst
  <2>1. Once(tasks, mailbox, None) BY <1>3 DEF Once, Single, Some
  <2>2. ~ Some(tasks, "charging", Saves) BY <1>3 DEF Some, Saves
  <2>q. QED BY <1>1, <2>1, <2>2 DEF CapsFirst
<1>5. \A t \in Tabs : AloneOK(t) BY <1>1 DEF AloneOK
<1>q. QED BY <1>4, <1>5, InitTyped DEF IInv

(* Edits are not replaced (EditsKept): when a tab was asked for with nothing of
   it on its way, no answer is coming that would replace a form that the user
   has changed. *)
THEOREM EditsAreKept == Spec => []EditsKept
<1>1. IInv => EditsKept
  <2> SUFFICES ASSUME IInv, NEW t \in Tabs, alone[t], form[t] # None, form[t].dirty
               PROVE  ~ Fetching(t)
    BY DEF EditsKept
  <2>1. Typed /\ AloneOK(t) /\ FormOK(t) BY DEF IInv, Typed
  <2>2. ~ Asked(tasks, mailbox, t) BY <2>1 DEF AloneOK, FormOK
  <2>q. QED BY <2>1, <2>2, UnderWay
<1>q. QED BY <1>1, InitInv, NextKeeps, PTL DEF Spec

-----------------------------------------------------------------------------
(* The charging form follows the capabilities. *)

ChargingOK ==
  "charging" \in Tabs /\ form["charging"] # None =>
    \/ form["charging"].editable = caps
    \/ Asked(tasks, mailbox, "charging")
    \/ failed["charging"]

LEMMA ChargingStays ==
  ASSUME ChargingOK, UNCHANGED caps, "charging" \in Tabs,
         form'["charging"] # None =>
           form["charging"] # None /\ form'["charging"].editable = form["charging"].editable,
         Asked(tasks, mailbox, "charging") \/ failed["charging"] =>
           Asked(tasks', mailbox', "charging") \/ failed'["charging"]
  PROVE  ChargingOK'
BY DEF ChargingOK

LEMMA KeyFollows ==
  ASSUME Typed, ChargingOK, "charging" \in Tabs,
         (\E t \in Tabs : Key(t)) \/ SwitchDevice
  PROVE  ChargingOK'
<1>0. /\ form \in [Tabs -> {None} \cup Form] /\ failed \in [Tabs -> BOOLEAN]
      /\ tasks \in Seq(TaskType)
  BY Parts
<1>1. ASSUME NEW t \in Tabs, NEW kind \in {"data", "devices"}, Ask(t, kind), UNCHANGED caps,
             form'["charging"] = form["charging"] \/ form'["charging"] = None
      PROVE  ChargingOK'
  <2>1. Asked(tasks', mailbox', "charging") <=> Asked(tasks, mailbox, "charging") \/ t = "charging"
    BY <1>1, AskEffect
  <2>2. failed' = [failed EXCEPT ![t] = FALSE] BY <1>1 DEF Ask
  <2>3. failed["charging"] => failed'["charging"] \/ t = "charging" BY <1>0, <2>2
  <2>q. QED BY <1>1, <2>1, <2>3, ChargingStays DEF ChargingOK
<1>2. ASSUME NEW t \in Tabs, ShowTab(t) PROVE ChargingOK'
  <2>1. Ask(t, First(t)) /\ UNCHANGED <<caps, form>> BY <1>2 DEF ShowTab, screen
  <2>2. First(t) \in {"data", "devices"} BY DEF First
  <2>q. QED BY <1>1, <2>1, <2>2
<1>3. CASE SwitchDevice
  <2>1. /\ "webcam" \in Tabs /\ UNCHANGED caps /\ Ask("webcam", "data")
        /\ form' = [form EXCEPT !["webcam"] = None]
    BY <1>3 DEF SwitchDevice
  <2>2. form'["charging"] = form["charging"] BY <1>0, <2>1
  <2>q. QED BY <1>1, <2>1, <2>2
<1>4. ASSUME NEW t \in Tabs, EditField(t) PROVE ChargingOK'
  <2>1. UNCHANGED <<caps, tasks, mailbox, failed>> /\ form[t] # None
    BY <1>4 DEF EditField, history
  <2>2. PICK g \in form[t].editable, v \in Values :
          form' = [form EXCEPT ![t].content[g] = v, ![t].dirty = TRUE]
    BY <1>4 DEF EditField
  <2>3. form[t] \in Form BY <1>0, <2>1
  <2>4. /\ form'[t].editable = form[t].editable
        /\ \A u \in Tabs : u # t => form'[u] = form[u]
    BY <1>0, <2>2, <2>3 DEF Form
  <2>q. QED BY <2>1, <2>4, ChargingStays
<1>5. ASSUME NEW t \in Tabs, SaveForm(t) PROVE ChargingOK'
  <2> DEFINE k == [Task("save", t) EXCEPT !.content = ToJson(form[t])]
  <2>1. UNCHANGED <<caps, form, mailbox, failed>> /\ tasks' = Append(tasks, k)
    BY <1>5 DEF SaveForm, Spawn, screen, history
  <2> HIDE DEF k
  <2>2. Asked(tasks, mailbox, "charging") => Asked(tasks', mailbox', "charging")
    BY <1>0, <2>1, Spawned
  <2>q. QED BY <2>1, <2>2, ChargingStays
<1>6. ASSUME NEW t \in Tabs, DiscardForm(t) PROVE ChargingOK'
  <2>1. UNCHANGED <<caps, tasks, mailbox, failed>> /\ form' = [form EXCEPT ![t] = None]
    BY <1>6 DEF DiscardForm, history
  <2>2. form'["charging"] = form["charging"] \/ form'["charging"] = None BY <1>0, <2>1
  <2>q. QED BY <2>1, <2>2, ChargingStays
<1>q. QED BY <1>2, <1>3, <1>4, <1>5, <1>6 DEF Key

LEMMA CallFollows ==
  ASSUME Typed, ChargingOK, "charging" \in Tabs, NEW t \in Tabs \cup {None}, CallFails(t)
  PROVE  ChargingOK'
<1>0. tasks \in Seq(TaskType) /\ TasksOK BY Parts DEF Typed
<1>1. /\ UNCHANGED <<caps, form, mailbox>>
      /\ failed' = [u \in Tabs |-> failed[u] \/ u = t]
  BY DEF CallFails, screen
<1>2. PICK i \in 1 .. Len(tasks) : tasks[i].tab = t /\ tasks' = RemoveAt(tasks, i)
  BY DEF CallFails, Take
<1>3. t # "charging" => (Asked(tasks, mailbox, "charging") => Asked(tasks', mailbox', "charging"))
  BY <1>0, <1>1, <1>2, Finished
<1>4. failed'["charging"] = (failed["charging"] \/ "charging" = t) BY <1>1
<1>q. QED BY <1>1, <1>3, <1>4, ChargingStays

LEMMA RunFollows ==
  ASSUME Typed, ChargingOK, "charging" \in Tabs,
         \/ \E t \in Tabs : RunTask(t)
         \/ RunFetchCapabilities \/ CallFails(None) \/ Stop \/ Start
  PROVE  ChargingOK'
<1>0. /\ tasks \in Seq(TaskType) /\ mailbox \in Seq(MessageType) /\ TasksOK
  BY Parts DEF Typed
<1>1. CASE (\E t \in Tabs : RunFetch(t)) \/ RunFetchCapabilities
  <2>1. PICK i \in 1 .. Len(tasks) :
          /\ tasks[i].kind \in Queries /\ Take(i)
          /\ \E c : Send(tasks[i].tab, tasks[i].kind, c)
    <3>1. CASE \E t \in Tabs : RunFetch(t)
      <4>1. PICK t \in Tabs : RunFetch(t) BY <3>1
      <4>2. PICK i \in 1 .. Len(tasks) :
              /\ tasks[i].tab = t /\ Take(i)
              /\ \/ tasks[i].kind = "data" /\ \E c \in Answers(t) : Send(t, "data", c)
                 \/ tasks[i].kind = "devices" /\ Send(t, "devices", Factory)
        BY <4>1 DEF RunFetch
      <4>q. QED BY <4>2 DEF Queries
    <3>2. CASE RunFetchCapabilities
      <4>1. PICK i \in 1 .. Len(tasks) : tasks[i].kind = "caps" /\ Take(i)
        BY <3>2 DEF RunFetchCapabilities
      <4>2. tasks[i].tab = None BY <1>0, <4>1, TaskFacts
      <4>3. Send(None, "caps", supported) BY <3>2 DEF RunFetchCapabilities
      <4>q. QED BY <4>1, <4>2, <4>3 DEF Queries
    <3>q. QED BY <1>1, <3>1, <3>2
  <2>2. PICK c : Send(tasks[i].tab, tasks[i].kind, c) BY <2>1
  <2>3. PICK m : m = [tab |-> tasks[i].tab, kind |-> tasks[i].kind, data |-> c] OBVIOUS
  <2>4. /\ mailbox' = Append(mailbox, m) /\ tasks' = RemoveAt(tasks, i)
        /\ m.tab = tasks[i].tab /\ m.kind \in Queries
    BY <2>1, <2>2, <2>3 DEF Send, Take
  <2>5. Asked(tasks, mailbox, "charging") => Asked(tasks', mailbox', "charging")
    BY <1>0, <2>1, <2>4, Answered
  <2>6. UNCHANGED <<caps, form, failed>>
    BY <1>1 DEF RunFetch, RunFetchCapabilities, screen, history
  <2>q. QED BY <2>5, <2>6, ChargingStays
<1>2. CASE \E t \in Tabs : RunSave(t)
  <2>1. UNCHANGED <<caps, form, mailbox, failed>>
    BY <1>2 DEF RunSave, screen, history
  <2>2. PICK i \in 1 .. Len(tasks) : tasks[i].kind = "save" /\ tasks' = RemoveAt(tasks, i)
    BY <1>2 DEF RunSave, Take
  <2>3. tasks[i].kind \notin Queries BY <2>2 DEF Queries
  <2>4. Asked(tasks, mailbox, "charging") => Asked(tasks', mailbox', "charging")
    BY <1>0, <2>1, <2>2, <2>3, Finished
  <2>q. QED BY <2>1, <2>4, ChargingStays
<1>3. CASE \E t \in Tabs \cup {None} : CallFails(t) BY <1>3, CallFollows
<1>4. CASE Stop \/ Start
  <2>1. UNCHANGED <<caps, form, tasks, mailbox, failed>>
    BY <1>4 DEF Stop, Start, screen, history
  <2>q. QED BY <2>1, ChargingStays
<1>q. QED BY <1>1, <1>2, <1>3, <1>4 DEF RunTask

LEMMA ReceiveFollows ==
  ASSUME Typed, ChargingOK, "charging" \in Tabs,
         ReceiveData \/ ReceiveDevices \/ ReceiveCapabilities
  PROVE  ChargingOK'
<1>0. /\ form \in [Tabs -> {None} \cup Form] /\ mailbox \in Seq(MessageType) /\ MailOK
      /\ loaded["charging"] = IF "charging" = "webcam" THEN devices ELSE form["charging"] # None
  BY Parts DEF Typed
<1>1. mailbox # << >> /\ mailbox' = Tail(mailbox) /\ UNCHANGED failed
  BY DEF ReceiveData, ReceiveDevices, ReceiveCapabilities, Receive, history
<1>2. Head(mailbox).tab # "charging" =>
        (Asked(tasks, mailbox, "charging") => Asked(tasks, mailbox', "charging"))
  <2>1. Head(mailbox).kind \in Queries BY <1>0, <1>1, FirstMessage
  <2>q. QED BY <1>0, <1>1, <2>1, Taken
<1>3. CASE ReceiveData
  <2> DEFINE t == Head(mailbox).tab
             f == ParseForm(t, Head(mailbox).data)
  <2>1. UNCHANGED <<caps, tasks>> /\ form' = [form EXCEPT ![t] = f]
    BY <1>3 DEF ReceiveData
  <2>2. t = "charging" => f.editable = caps BY DEF ParseForm
  <2> HIDE DEF f, t
  <2>3. form'["charging"] = IF t = "charging" THEN f ELSE form["charging"] BY <1>0, <2>1
  <2>4. CASE t = "charging" BY <2>1, <2>2, <2>3, <2>4 DEF ChargingOK
  <2>5. CASE t # "charging" BY <1>1, <1>2, <2>1, <2>3, <2>5, ChargingStays DEF t
  <2>q. QED BY <2>4, <2>5
<1>4. CASE ReceiveDevices
  <2>1. /\ UNCHANGED <<caps, form>> /\ Head(mailbox).kind = "devices"
        /\ tasks' = Append(tasks, Task("data", "webcam"))
    BY <1>4 DEF ReceiveDevices, Receive
  <2>2. Head(mailbox).tab = "webcam" /\ "webcam" \in Tabs
    BY <1>0, <1>1, <2>1, FirstMessage DEF MessageOK
  <2>3. Asked(tasks, mailbox', "charging") => Asked(tasks', mailbox', "charging")
    BY <2>1, <2>2, AskedAgain
  <2>q. QED BY <1>1, <1>2, <2>1, <2>2, <2>3, ChargingStays
<1>5. CASE ReceiveCapabilities
  <2>1. /\ UNCHANGED form
        /\ tasks' = IF "charging" \in Tabs /\ loaded["charging"]
                    THEN Append(tasks, Task("data", "charging")) ELSE tasks
    BY <1>5 DEF ReceiveCapabilities
  <2>2. CASE form["charging"] # None
    <3>1. tasks' = Append(tasks, Task("data", "charging")) BY <1>0, <2>1, <2>2
    <3>2. Asked(tasks', mailbox', "charging") BY <3>1, AskedAgain
    <3>q. QED BY <3>2 DEF ChargingOK
  <2>3. CASE form["charging"] = None BY <2>1, <2>3 DEF ChargingOK
  <2>q. QED BY <2>2, <2>3
<1>q. QED BY <1>3, <1>4, <1>5

(* The charging form offers what the hardware supports as far as the TUI knows,
   or a new form is on its way or could not be had (ChargingFollowsCapabilities). *)
THEOREM ChargingFollows == Spec => []ChargingFollowsCapabilities
<1>1. Init => Typed /\ ChargingOK
  <2> SUFFICES ASSUME Init PROVE Typed /\ ChargingOK OBVIOUS
  <2>1. form = [t \in Tabs |-> None] BY DEF Init
  <2>q. QED BY <2>1, InitTyped DEF ChargingOK
<1>2. Typed /\ ChargingOK /\ [Next]_vars => (Typed /\ ChargingOK)'
  <2> SUFFICES ASSUME Typed, ChargingOK, [Next]_vars PROVE ChargingOK' BY NextTyped
  <2>1. CASE "charging" \notin Tabs BY <2>1 DEF ChargingOK
  <2>2. CASE UNCHANGED vars
    BY <2>2 DEF ChargingOK, Asked, vars, screen, history
  <2>3. CASE Next /\ "charging" \in Tabs
    BY <2>3, KeyFollows, RunFollows, ReceiveFollows DEF Next
  <2>q. QED BY <2>1, <2>2, <2>3
<1>3. Typed /\ ChargingOK => ChargingFollowsCapabilities
  BY UnderWay DEF ChargingOK, ChargingFollowsCapabilities
<1>q. QED BY <1>1, <1>2, <1>3, PTL DEF Spec

-----------------------------------------------------------------------------
(* A form without marks shows what the daemon has.  So does an answer on its
   way, in what the form will show of it. *)

Agrees(t, c, G) == \A g \in G : c[g] = IF g = "read" THEN hardware[t] ELSE memory[t][g]

MailCurrent(t) ==
  \A i \in 1 .. Len(mailbox) :
    mailbox[i].tab = t /\ mailbox[i].kind = "data" => Agrees(t, mailbox[i].data, Shown(t))

CurrentOK(t) ==
  alone[t] =>
    /\ MailCurrent(t)
    /\ form[t] # None /\ ~ form[t].dirty => Agrees(t, form[t].content, form[t].editable)

LEMMA CurrentStays ==
  ASSUME NEW t \in Tabs, CurrentOK(t), alone'[t] => alone[t],
         hardware'[t] = hardware[t], memory'[t] = memory[t], UNCHANGED supported,
         form'[t] = form[t] \/ form'[t] = None,
         \A i \in 1 .. Len(mailbox') : mailbox'[i].tab = t /\ mailbox'[i].kind = "data" =>
           \E j \in 1 .. Len(mailbox) : mailbox'[i] = mailbox[j]
  PROVE  CurrentOK(t)'
<1>1. Shown(t)' = Shown(t) BY DEF Shown
<1>2. \A c, G : Agrees(t, c, G) => \A g \in G : c[g] = IF g = "read" THEN hardware'[t] ELSE memory'[t][g]
  BY DEF Agrees
<1>3. alone'[t] => MailCurrent(t)' BY <1>1, <1>2 DEF CurrentOK, MailCurrent, Agrees
<1>4. alone'[t] /\ form'[t] # None /\ ~ form'[t].dirty =>
        Agrees(t, form[t].content, form[t].editable) /\ form'[t] = form[t]
  BY DEF CurrentOK
<1>5. alone'[t] /\ form'[t] # None /\ ~ form'[t].dirty =>
        Agrees(t, form[t].content, form[t].editable)'
  BY <1>4 DEF Agrees
<1>q. QED BY <1>3, <1>5, <1>4 DEF CurrentOK, Agrees

(* The answer is what the hardware has, if it can be read. *)
LEMMA AnswersCurrent ==
  ASSUME Typed, "read" \notin Faults, NEW t \in Tabs, NEW c \in Answers(t)
  PROVE  Agrees(t, c, Shown(t))
<1>1. memory[t] \in Content BY DEF Typed, TypeOK
<1>2. c = IF Readable(t) THEN [memory[t] EXCEPT !["read"] = hardware[t]] ELSE memory[t]
  BY DEF Answers
<1>3. CASE Readable(t)
  <2>1. c["read"] = hardware[t] /\ c["kept"] = memory[t]["kept"]
    BY <1>1, <1>2, <1>3 DEF Content
  <2>2. Shown(t) \subseteq {"read", "kept"} BY DEF Shown, Groups, Typed, TypeOK
  <2>q. QED BY <2>1, <2>2 DEF Agrees
<1>4. CASE ~ Readable(t)
  <2>1. "read" \notin Shown(t) BY <1>4 DEF Readable, Shown, Groups
  <2>q. QED BY <1>2, <1>4, <2>1 DEF Agrees
<1>q. QED BY <1>3, <1>4

(* Without anything under way there is no answer to be current. *)
LEMMA NothingSent ==
  ASSUME NEW ts, NEW ms, NEW t, ~ Asked(ts, ms, t)
  PROVE  \A i \in 1 .. Len(ms) : ~ (ms[i].tab = t /\ ms[i].kind = "data")
BY DEF Asked, Some, Queries

LEMMA KeyCurrent ==
  ASSUME IInv, \A u \in Tabs : CurrentOK(u), (\E t \in Tabs : Key(t)) \/ SwitchDevice
  PROVE  \A u \in Tabs : CurrentOK(u)'
<1>0. Typed /\ form \in [Tabs -> {None} \cup Form] BY Parts DEF IInv
<1>1. UNCHANGED <<mailbox, hardware, memory, supported>>
  BY DEF Key, ShowTab, EditField, SaveForm, DiscardForm, SwitchDevice, Ask, daemon
<1>2. ASSUME NEW t \in Tabs, NEW kind \in {"data", "devices"}, Ask(t, kind), form'[t] = None,
             \A u \in Tabs : u # t => form'[u] = form[u]
      PROVE  \A u \in Tabs : CurrentOK(u)'
  <2>1. /\ \A u \in Tabs : u # t => alone'[u] = alone[u]
        /\ alone'[t] => ~ Asked(tasks, mailbox, t)
    BY <1>0, <1>2, AskEffect
  <2>2. alone'[t] => MailCurrent(t)' BY <1>1, <2>1, NothingSent DEF MailCurrent
  <2>3. CurrentOK(t)' BY <1>2, <2>2 DEF CurrentOK
  <2>4. ASSUME NEW u \in Tabs, u # t PROVE CurrentOK(u)'
    BY <1>1, <1>2, <2>1, <2>4, CurrentStays
  <2>q. QED BY <2>3, <2>4
<1>3. ASSUME NEW t \in Tabs, ShowTab(t) PROVE \A u \in Tabs : CurrentOK(u)'
  <2>1. Ask(t, First(t)) /\ UNCHANGED form /\ ~ loaded[t] BY <1>3 DEF ShowTab, screen
  <2>2. First(t) \in {"data", "devices"} BY DEF First
  <2>3. form'[t] = None BY <1>0, <2>1 DEF Typed, FormOK
  <2>q. QED BY <1>2, <2>1, <2>2, <2>3
<1>4. CASE SwitchDevice
  <2>1. /\ "webcam" \in Tabs /\ Ask("webcam", "data")
        /\ form' = [form EXCEPT !["webcam"] = None]
    BY <1>4 DEF SwitchDevice
  <2>2. form'["webcam"] = None /\ \A u \in Tabs : u # "webcam" => form'[u] = form[u]
    BY <1>0, <2>1
  <2>q. QED BY <1>2, <2>1, <2>2
<1>5. ASSUME NEW t \in Tabs, EditField(t) PROVE \A u \in Tabs : CurrentOK(u)'
  <2>1. UNCHANGED alone /\ form[t] # None BY <1>5 DEF EditField, history
  <2>2. PICK g \in form[t].editable, v \in Values :
          form' = [form EXCEPT ![t].content[g] = v, ![t].dirty = TRUE]
    BY <1>5 DEF EditField
  <2>3. form[t] \in Form BY <1>0, <2>1
  <2>4. /\ form'[t].dirty = TRUE
        /\ \A u \in Tabs : u # t => form'[u] = form[u]
    BY <1>0, <2>2, <2>3 DEF Form
  <2>5. ASSUME alone[t] PROVE MailCurrent(t)'
    BY <1>1, <2>5 DEF CurrentOK, MailCurrent, Agrees, Shown
  <2>6. CurrentOK(t)' BY <2>1, <2>4, <2>5 DEF CurrentOK
  <2>7. ASSUME NEW u \in Tabs, u # t PROVE CurrentOK(u)'
    BY <1>1, <2>1, <2>4, <2>7, CurrentStays
  <2>q. QED BY <2>6, <2>7
<1>6. ASSUME NEW t \in Tabs, SaveForm(t) PROVE \A u \in Tabs : CurrentOK(u)'
  <2>1. UNCHANGED <<form, alone>> BY <1>6 DEF SaveForm, screen, history
  <2>q. QED BY <1>1, <2>1, CurrentStays
<1>7. ASSUME NEW t \in Tabs, DiscardForm(t) PROVE \A u \in Tabs : CurrentOK(u)'
  <2>1. UNCHANGED alone /\ form' = [form EXCEPT ![t] = None]
    BY <1>7 DEF DiscardForm, history
  <2>2. \A u \in Tabs : form'[u] = form[u] \/ form'[u] = None BY <1>0, <2>1
  <2>q. QED BY <1>1, <2>1, <2>2, CurrentStays
<1>q. QED BY <1>3, <1>4, <1>5, <1>6, <1>7 DEF Key

LEMMA RunCurrent ==
  ASSUME IInv, \A u \in Tabs : CurrentOK(u), "read" \notin Faults,
         \/ \E t \in Tabs : RunTask(t)
         \/ RunFetchCapabilities \/ CallFails(None) \/ Stop \/ Start
  PROVE  \A u \in Tabs : CurrentOK(u)'
<1>0. /\ Typed /\ mailbox \in Seq(MessageType) /\ \A u \in Tabs : AloneOK(u)
      /\ memory \in [Tabs -> Content] /\ hardware \in [Tabs -> Values]
      /\ alone \in [Tabs -> BOOLEAN]
  BY Parts DEF IInv, Typed, TypeOK
<1>1. UNCHANGED <<form, supported>>
  BY DEF RunTask, RunFetch, RunSave, CallFails, RunFetchCapabilities, Stop, Start, screen, daemon
<1>2. ASSUME NEW t \in Tabs, RunFetch(t) PROVE \A u \in Tabs : CurrentOK(u)'
  <2>1. UNCHANGED <<alone, memory, hardware>> BY <1>2 DEF RunFetch, daemon, history
  <2>2. PICK kind, c : /\ Send(t, kind, c)
                       /\ kind = "data" => c \in Answers(t)
    BY <1>2 DEF RunFetch
  <2>3. PICK m : m = [tab |-> t, kind |-> kind, data |-> c] OBVIOUS
  <2>4. mailbox' = Append(mailbox, m) BY <2>2, <2>3 DEF Send
  <2>5. \A i \in 1 .. Len(mailbox') :
          mailbox'[i] = m \/ \E j \in 1 .. Len(mailbox) : mailbox'[i] = mailbox[j]
    BY <1>0, <2>4, AppendProperties
  <2>6. m.kind = "data" => Agrees(t, m.data, Shown(t)) BY <1>0, <2>2, <2>3, AnswersCurrent
  <2>7. ASSUME alone[t] PROVE MailCurrent(t)'
    <3>1. MailCurrent(t) BY <2>7 DEF CurrentOK
    <3>q. QED BY <1>1, <2>1, <2>5, <2>6, <3>1 DEF MailCurrent, Agrees, Shown
  <2>8. CurrentOK(t)' BY <1>1, <2>1, <2>7 DEF CurrentOK, Agrees
  <2>9. ASSUME NEW u \in Tabs, u # t PROVE CurrentOK(u)'
    <3>1. m.tab # u BY <2>3, <2>9
    <3>q. QED BY <1>1, <2>1, <2>5, <3>1, CurrentStays
  <2>q. QED BY <2>8, <2>9
<1>3. ASSUME NEW t \in Tabs, RunSave(t) PROVE \A u \in Tabs : CurrentOK(u)'
  <2>1. UNCHANGED <<alone, mailbox>> BY <1>3 DEF RunSave, history
  <2>2. PICK i \in 1 .. Len(tasks) :
          /\ tasks[i].tab = t /\ tasks[i].kind = "save"
          /\ \/ hardware' = [hardware EXCEPT ![t] = tasks[i].content["read"]]
             \/ UNCHANGED hardware
          /\ memory' = [memory EXCEPT ![t] = tasks[i].content]
    BY <1>3 DEF RunSave
  <2>3. Some(tasks, t, Saves) BY <2>2 DEF Some, Saves
  <2>4. alone[t] => ~ Asked(tasks, mailbox, t) /\ (form[t] # None => form[t].dirty)
    BY <1>0, <2>3 DEF AloneOK
  <2>5. alone[t] => MailCurrent(t)' BY <2>1, <2>4, NothingSent DEF MailCurrent
  <2>6. CurrentOK(t)' BY <1>1, <2>1, <2>4, <2>5 DEF CurrentOK
  <2>7. ASSUME NEW u \in Tabs, u # t PROVE CurrentOK(u)'
    <3>1. memory'[u] = memory[u] /\ hardware'[u] = hardware[u] BY <1>0, <2>2, <2>7
    <3>q. QED BY <1>1, <2>1, <3>1, CurrentStays
  <2>q. QED BY <2>6, <2>7
<1>4. CASE (\E t \in Tabs : CallFails(t)) \/ CallFails(None) \/ Start
  <2>1. UNCHANGED <<alone, mailbox, memory, hardware>>
    BY <1>4 DEF CallFails, Start, daemon, history
  <2>q. QED BY <1>1, <2>1, CurrentStays
<1>5. CASE RunFetchCapabilities
  <2>1. UNCHANGED <<alone, memory, hardware>> BY <1>5 DEF RunFetchCapabilities, daemon, history
  <2>2. PICK m : m = [tab |-> None, kind |-> "caps", data |-> supported] OBVIOUS
  <2>3. mailbox' = Append(mailbox, m) BY <1>5, <2>2 DEF RunFetchCapabilities, Send
  <2>4. \A i \in 1 .. Len(mailbox') :
          mailbox'[i] = m \/ \E j \in 1 .. Len(mailbox) : mailbox'[i] = mailbox[j]
    BY <1>0, <2>3, AppendProperties
  <2>5. m.kind # "data" BY <2>2
  <2>q. QED BY <1>1, <2>1, <2>4, <2>5, CurrentStays
<1>6. CASE Stop
  <2>1. alone' = [t \in Tabs |-> FALSE] BY <1>6 DEF Stop
  <2>q. QED BY <2>1 DEF CurrentOK
<1>q. QED BY <1>2, <1>3, <1>4, <1>5, <1>6 DEF RunTask

LEMMA ReceiveCurrent ==
  ASSUME IInv, \A u \in Tabs : CurrentOK(u),
         ReceiveData \/ ReceiveDevices \/ ReceiveCapabilities
  PROVE  \A u \in Tabs : CurrentOK(u)'
<1>0. /\ Typed /\ mailbox \in Seq(MessageType) /\ MailOK
      /\ form \in [Tabs -> {None} \cup Form] /\ caps \subseteq supported
  BY Parts DEF IInv, Typed
<1>1. /\ mailbox # << >> /\ mailbox' = Tail(mailbox)
      /\ UNCHANGED <<memory, hardware, supported, alone>>
  BY DEF ReceiveData, ReceiveDevices, ReceiveCapabilities, Receive, daemon, history
<1>2. /\ \A i \in 1 .. Len(mailbox') : \E j \in 1 .. Len(mailbox) : mailbox'[i] = mailbox[j]
      /\ 1 \in 1 .. Len(mailbox) /\ Head(mailbox) = mailbox[1]
  BY <1>0, <1>1, Received, Removed
<1>3. CASE ReceiveData
  <2>0. PICK t : t = Head(mailbox).tab OBVIOUS
  <2> DEFINE f == ParseForm(t, Head(mailbox).data)
  <2>1. Head(mailbox).kind = "data" /\ form' = [form EXCEPT ![t] = f]
    BY <1>3, <2>0 DEF ReceiveData, Receive
  <2>2. t \in Tabs BY <1>0, <1>1, <2>0, <2>1, FirstMessage
  <2>3. f.content = Head(mailbox).data /\ f.editable \subseteq Shown(t)
    BY <1>0 DEF ParseForm, Shown
  <2>4. alone[t] => Agrees(t, Head(mailbox).data, Shown(t))
    BY <1>2, <2>0, <2>1, <2>2 DEF CurrentOK, MailCurrent
  <2> HIDE DEF f
  <2>5. form'[t] = f /\ \A u \in Tabs : u # t => form'[u] = form[u]
    BY <1>0, <2>1, <2>2
  <2>6. alone[t] => MailCurrent(t)'
    <3>1. alone[t] => MailCurrent(t) BY <2>2 DEF CurrentOK
    <3>q. QED BY <1>1, <1>2, <3>1 DEF MailCurrent, Agrees, Shown
  <2>7. alone[t] => Agrees(t, f.content, f.editable) BY <2>3, <2>4 DEF Agrees
  <2>8. CurrentOK(t)' BY <1>1, <2>5, <2>6, <2>7 DEF CurrentOK, Agrees
  <2>9. ASSUME NEW u \in Tabs, u # t PROVE CurrentOK(u)'
    BY <1>1, <1>2, <2>5, <2>9, CurrentStays
  <2>q. QED BY <2>8, <2>9
<1>4. CASE ReceiveDevices \/ ReceiveCapabilities
  <2>1. UNCHANGED form BY <1>4 DEF ReceiveDevices, ReceiveCapabilities
  <2>q. QED BY <1>1, <1>2, <2>1, CurrentStays
<1>q. QED BY <1>3, <1>4

(* If the hardware can be read whenever the daemon is asked, a form without
   marks shows what the daemon remembers and what the hardware has
   (UnmarkedIsCurrent). *)
THEOREM UnmarkedShowsCurrent ==
  ASSUME "read" \notin Faults
  PROVE  Spec => []UnmarkedIsCurrent
<1> DEFINE Inv == IInv /\ \A t \in Tabs : CurrentOK(t)
<1>1. Init => Inv
  <2> SUFFICES ASSUME Init PROVE \A t \in Tabs : CurrentOK(t) BY InitInv
  <2>1. alone = [t \in Tabs |-> FALSE] BY DEF Init
  <2>q. QED BY <2>1 DEF CurrentOK
<1>2. Inv /\ [Next]_vars => Inv'
  <2> SUFFICES ASSUME Inv, [Next]_vars PROVE \A t \in Tabs : CurrentOK(t)' BY NextKeeps
  <2>1. CASE UNCHANGED vars
    <3>1. UNCHANGED <<form, mailbox, alone, memory, hardware, supported>>
      BY <2>1 DEF vars, screen, daemon, history
    <3>q. QED BY <3>1, CurrentStays
  <2>2. CASE Next BY <2>2, KeyCurrent, RunCurrent, ReceiveCurrent DEF Next
  <2>q. QED BY <2>1, <2>2
<1>3. Inv => UnmarkedIsCurrent BY DEF CurrentOK, Agrees, UnmarkedIsCurrent
<1>q. QED BY <1>1, <1>2, <1>3, PTL DEF Spec
=============================================================================
