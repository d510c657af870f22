--------------------------- MODULE FanCurveTabProofs ---------------------------
(***************************************************************************)
(* Theorems about FanCurveTab, for any profiles, tables and bounds.        *)
(***************************************************************************)
EXTENDS FanCurveTab, Integers, SequenceTheorems, TLAPS

-----------------------------------------------------------------------------
(* Sequences *)

LEMMA JoinedParts ==
  ASSUME NEW S, NEW s \in Seq(S), NEW m \in 0 .. Len(s), NEW n \in 1 .. Len(s) + 1
  PROVE  /\ SubSeq(s, 1, m) \in Seq(S) /\ Len(SubSeq(s, 1, m)) = m
         /\ \A i \in 1 .. m : SubSeq(s, 1, m)[i] = s[i]
         /\ SubSeq(s, n, Len(s)) \in Seq(S)
         /\ Len(SubSeq(s, n, Len(s))) = Len(s) - n + 1
         /\ \A i \in 1 .. Len(s) - n + 1 : SubSeq(s, n, Len(s))[i] = s[n + i - 1]
<1>1. Len(s) \in Nat BY LenProperties
<1>2. m \in Int /\ n \in Int /\ Len(s) \in Int /\ 1 \in Int BY <1>1
<1>3. \A i \in 1 .. m : s[i] \in S BY <1>1, ElementOfSeq
<1>4. \A i \in n .. Len(s) : s[i] \in S BY <1>1, ElementOfSeq
<1>5. /\ SubSeq(s, 1, m) \in Seq(S)
      /\ Len(SubSeq(s, 1, m)) = IF 1 <= m THEN m - 1 + 1 ELSE 0
      /\ \A i \in 1 .. m - 1 + 1 : SubSeq(s, 1, m)[i] = s[1 + i - 1]
  BY <1>2, <1>3, SubSeqProperties
<1>6. /\ SubSeq(s, n, Len(s)) \in Seq(S)
      /\ Len(SubSeq(s, n, Len(s))) = IF n <= Len(s) THEN Len(s) - n + 1 ELSE 0
      /\ \A i \in 1 .. Len(s) - n + 1 : SubSeq(s, n, Len(s))[i] = s[n + i - 1]
  BY <1>2, <1>4, SubSeqProperties
<1>7. Len(SubSeq(s, 1, m)) = m /\ Len(SubSeq(s, n, Len(s))) = Len(s) - n + 1
  BY <1>1, <1>5, <1>6
<1>8. \A i \in 1 .. m : SubSeq(s, 1, m)[i] = s[i]
  <2>1. \A i \in 1 .. m : i \in 1 .. m - 1 + 1 /\ 1 + i - 1 = i BY <1>2
  <2>q. QED BY <1>5, <2>1
<1>q. QED BY <1>5, <1>6, <1>7, <1>8

LEMMA InsertProperties ==
  ASSUME NEW S, NEW s \in Seq(S), NEW i \in 1 .. Len(s) + 1, NEW e \in S
  PROVE  /\ InsertAt(s, i, e) \in Seq(S)
         /\ Len(InsertAt(s, i, e)) = Len(s) + 1
         /\ \A j \in 1 .. Len(s) + 1 :
              InsertAt(s, i, e)[j] =
                IF j < i THEN s[j] ELSE IF j = i THEN e ELSE s[j - 1]
<1> DEFINE a == SubSeq(s, 1, i - 1)
           b == SubSeq(s, i, Len(s))
           ae == Append(a, e)
<1>1. Len(s) \in Nat BY LenProperties
<1>2. i - 1 \in 0 .. Len(s) BY <1>1
<1>3. /\ a \in Seq(S) /\ Len(a) = i - 1
      /\ \A j \in 1 .. i - 1 : a[j] = s[j]
      /\ b \in Seq(S) /\ Len(b) = Len(s) - i + 1
      /\ \A j \in 1 .. Len(s) - i + 1 : b[j] = s[i + j - 1]
  BY <1>2, JoinedParts
<1>4. InsertAt(s, i, e) = ae \o b
  BY <1>3, AppendIsConcat DEF InsertAt
<1> HIDE DEF a, b
<1>5. /\ ae \in Seq(S) /\ Len(ae) = i
      /\ \A j \in 1 .. i - 1 : ae[j] = s[j]
      /\ ae[i] = e
  <2>1. /\ ae \in Seq(S) /\ Len(ae) = Len(a) + 1
        /\ \A j \in 1 .. Len(a) : ae[j] = a[j]
        /\ ae[Len(a) + 1] = e
    BY <1>3, AppendProperties
  <2>2. Len(a) + 1 = i BY <1>1, <1>3
  <2>q. QED BY <1>3, <2>1, <2>2
<1> HIDE DEF ae
<1>6. /\ ae \o b \in Seq(S)
      /\ Len(ae \o b) = Len(ae) + Len(b)
      /\ \A j \in 1 .. Len(ae) + Len(b) :
           (ae \o b)[j] = IF j <= Len(ae) THEN ae[j] ELSE b[j - Len(ae)]
  BY <1>3, <1>5, ConcatProperties
<1>7. Len(ae) + Len(b) = Len(s) + 1 BY <1>1, <1>3, <1>5
<1>8. ASSUME NEW j \in 1 .. Len(s) + 1
      PROVE  (ae \o b)[j] =
               IF j < i THEN s[j] ELSE IF j = i THEN e ELSE s[j - 1]
  <2>0. (ae \o b)[j] = IF j <= i THEN ae[j] ELSE b[j - i]
    <3>1. j \in 1 .. Len(ae) + Len(b) /\ Len(ae) = i BY <1>5, <1>7
    <3>q. QED BY <1>6, <3>1
  <2>1. CASE j < i
    <3>1. j <= i /\ j \in 1 .. i - 1 BY <1>1, <2>1
    <3>q. QED BY <1>5, <2>0, <2>1, <3>1
  <2>2. CASE j = i
    <3>1. j <= i /\ ~ j < i BY <1>1, <2>2
    <3>q. QED BY <1>5, <2>0, <2>2, <3>1
  <2>3. CASE j > i
    <3>1. j - i \in 1 .. Len(s) - i + 1 /\ i + (j - i) - 1 = j - 1 BY <1>1, <2>3
    <3>2. ~ j <= i /\ ~ j < i /\ j # i BY <1>1, <2>3
    <3>q. QED BY <1>3, <2>0, <3>1, <3>2
  <2>4. j < i \/ j = i \/ j > i BY <1>1
  <2>q. QED BY <2>1, <2>2, <2>3, <2>4
<1>q. QED BY <1>4, <1>6, <1>7, <1>8

LEMMA RemoveProperties ==
  ASSUME NEW S, NEW s \in Seq(S), NEW i \in 1 .. Len(s)
  PROVE  /\ RemoveAt(s, i) \in Seq(S)
         /\ Len(RemoveAt(s, i)) = Len(s) - 1
         /\ \A j \in 1 .. Len(s) - 1 :
              RemoveAt(s, i)[j] = IF j < i THEN s[j] ELSE s[j + 1]
<1> DEFINE a == SubSeq(s, 1, i - 1)
           b == SubSeq(s, i + 1, Len(s))
<1>1. Len(s) \in Nat BY LenProperties
<1>2. i - 1 \in 0 .. Len(s) /\ i + 1 \in 1 .. Len(s) + 1 BY <1>1
<1>3. /\ a \in Seq(S) /\ Len(a) = i - 1
      /\ \A j \in 1 .. i - 1 : a[j] = s[j]
      /\ b \in Seq(S) /\ Len(b) = Len(s) - (i + 1) + 1
      /\ \A j \in 1 .. Len(s) - (i + 1) + 1 : b[j] = s[i + 1 + j - 1]
  BY <1>2, JoinedParts
<1>4. RemoveAt(s, i) = a \o b BY DEF RemoveAt
<1> HIDE DEF a, b
<1>5. /\ a \o b \in Seq(S)
      /\ Len(a \o b) = Len(a) + Len(b)
      /\ \A j \in 1 .. Len(a) + Len(b) :
           (a \o b)[j] = IF j <= Len(a) THEN a[j] ELSE b[j - Len(a)]
  BY <1>3, ConcatProperties
<1>6. Len(a) + Len(b) = Len(s) - 1 BY <1>1, <1>3
<1>7. ASSUME NEW j \in 1 .. Len(s) - 1
      PROVE  (a \o b)[j] = IF j < i THEN s[j] ELSE s[j + 1]
  <2>1. CASE j < i BY <1>1, <1>3, <1>5, <1>6, <2>1
  <2>2. CASE j >= i
    <3>1. /\ j - (i - 1) \in 1 .. Len(s) - (i + 1) + 1
          /\ i + 1 + (j - (i - 1)) - 1 = j + 1
      BY <1>1, <2>2
    <3>2. j \in 1 .. Len(a) + Len(b) BY <1>6
    <3>3. ~ j <= Len(a) /\ ~ j < i BY <1>1, <1>3, <2>2
    <3>4. (a \o b)[j] = b[j - Len(a)] BY <1>5, <3>2, <3>3
    <3>q. QED BY <1>3, <3>1, <3>3, <3>4
  <2>3. j < i \/ j >= i BY <1>1
  <2>q. QED BY <2>1, <2>2, <2>3
<1>q. QED BY <1>4, <1>5, <1>6, <1>7

-----------------------------------------------------------------------------
(* Types *)

TaskType == [kind : {"fetch", "save"}, curve : Seq(Point)]

LEMMA NewPointOK ==
  ASSUME NEW a \in Point, NEW b \in Point
  PROVE  P(Mean(a.temp, b.temp), Mean(a.speed, b.speed)) \in Point
<1>1. ASSUME NEW x \in 0 .. 255, NEW y \in 0 .. 255
      PROVE  Mean(x, y) \in 0 .. 255
  BY DEF Mean
<1>q. QED BY <1>1 DEF Point, P

LEMMA BetweenOK ==
  ASSUME TypeOK, NEW i \in 1 .. Len(points)
  PROVE  Between(i) \in Point
<1>1. Len(points) \in Nat BY LenProperties DEF TypeOK
<1>2. points[i] \in Point BY ElementOfSeq DEF TypeOK
<1>3. P(100, 100) \in Point BY DEF P, Point
<1>4. CASE i < Len(points)
  <2>1. i + 1 \in 1 .. Len(points) BY <1>1, <1>4
  <2>2. points[i + 1] \in Point BY <2>1, ElementOfSeq DEF TypeOK
  <2>q. QED BY <1>2, <1>4, <2>2, NewPointOK DEF Between
<1>5. CASE ~ i < Len(points) BY <1>2, <1>3, <1>5, NewPointOK DEF Between
<1>q. QED BY <1>4, <1>5

LEMMA DefaultCurveOK == DefaultCurve \in Seq(Point) /\ Len(DefaultCurve) = 5
<1>1. /\ P(0, 0) \in Point /\ P(40, 20) \in Point /\ P(60, 40) \in Point
      /\ P(80, 70) \in Point /\ P(100, 100) \in Point
  BY DEF P, Point
<1>q. QED BY <1>1 DEF DefaultCurve

(* What the keys that change the points make of them. *)
LEMMA EditsOK ==
  ASSUME TypeOK, Adjust \/ InsertPoint \/ RemovePoint \/ Reset
  PROVE  /\ points' \in Seq(Point)
         /\ selected' \in Nat
         /\ selected' < Len(points') \/ selected' = 0
         /\ edits' \in 0 .. MaxEdits /\ edited' = TRUE
         /\ UNCHANGED <<daemon, original, tasks, saving, mailbox>>
<1>1. Len(points) \in Nat /\ selected \in Nat /\ points \in Seq(Point)
  BY LenProperties DEF TypeOK
<1>2. ASSUME NEW c, NEW n, Edit(c, n)
      PROVE  /\ points' = c /\ selected' = n /\ edited' = TRUE
             /\ edits' \in 0 .. MaxEdits
             /\ UNCHANGED <<daemon, original, tasks, saving, mailbox>>
  BY <1>2, TabAssumption DEF Edit, TypeOK
<1>3. CASE Adjust
  <2>1. selected + 1 \in 1 .. Len(points) BY <1>1, <1>3 DEF Adjust
  <2>2. points[selected + 1] \in Point BY <1>1, <2>1, ElementOfSeq
  <2>3. PICK x \in 0 .. 255 :
          Edit([points EXCEPT ![selected + 1].speed = x], selected)
    <3> DEFINE now == points[selected + 1].speed
    <3>1. now \in 0 .. 255 BY <2>2 DEF Point
    <3>2. PICK x \in {IF now + 5 < 100 THEN now + 5 ELSE 100,
                      IF now > 5 THEN now - 5 ELSE 0} :
            Edit([points EXCEPT ![selected + 1].speed = x], selected)
      BY <1>3 DEF Adjust
    <3>3. x \in 0 .. 255
      <4> HIDE DEF now
      <4>q. QED BY <3>1, <3>2
    <3>q. QED BY <3>2, <3>3
  <2>4. [points[selected + 1] EXCEPT !.speed = x] \in Point
    BY <2>2 DEF Point
  <2>5. /\ [points EXCEPT ![selected + 1].speed = x] \in Seq(Point)
        /\ Len([points EXCEPT ![selected + 1].speed = x]) = Len(points)
    BY <1>1, <2>1, <2>4, ExceptSeq
  <2>q. QED BY <1>1, <1>2, <1>3, <2>3, <2>5 DEF Adjust
<1>4. CASE InsertPoint
  <2>1. /\ selected + 1 \in 1 .. Len(points)
        /\ selected + 2 \in 1 .. Len(points) + 1
    BY <1>1, <1>4 DEF InsertPoint
  <2>2. Between(selected + 1) \in Point BY <2>1, BetweenOK
  <2>3. /\ InsertAt(points, selected + 2, Between(selected + 1)) \in Seq(Point)
        /\ Len(InsertAt(points, selected + 2, Between(selected + 1)))
             = Len(points) + 1
    BY <1>1, <2>1, <2>2, InsertProperties
  <2>4. Edit(InsertAt(points, selected + 2, Between(selected + 1)), selected + 1)
    BY <1>4 DEF InsertPoint
  <2> DEFINE c == InsertAt(points, selected + 2, Between(selected + 1))
  <2>5. /\ points' = c /\ selected' = selected + 1 /\ edited' = TRUE
        /\ edits' \in 0 .. MaxEdits
        /\ UNCHANGED <<daemon, original, tasks, saving, mailbox>>
    BY <1>2, <2>4
  <2>6. c \in Seq(Point) /\ Len(c) = Len(points) + 1 BY <2>3
  <2> HIDE DEF c
  <2>7. selected + 1 \in Nat /\ selected + 1 < Len(points) + 1 BY <1>1, <2>1
  <2>q. QED BY <2>5, <2>6, <2>7
<1>5. CASE RemovePoint
  <2>1. selected + 1 \in 1 .. Len(points) /\ selected < Len(points) - 1
    BY <1>1, <1>5 DEF RemovePoint
  <2>2. /\ RemoveAt(points, selected + 1) \in Seq(Point)
        /\ Len(RemoveAt(points, selected + 1)) = Len(points) - 1
    BY <1>1, <2>1, RemoveProperties
  <2>3. Edit(RemoveAt(points, selected + 1), selected)
    BY <1>5 DEF RemovePoint
  <2> DEFINE c == RemoveAt(points, selected + 1)
  <2>4. /\ points' = c /\ selected' = selected /\ edited' = TRUE
        /\ edits' \in 0 .. MaxEdits
        /\ UNCHANGED <<daemon, original, tasks, saving, mailbox>>
    BY <1>2, <2>3
  <2>5. c \in Seq(Point) /\ Len(c) = Len(points) - 1 BY <2>2
  <2> HIDE DEF c
  <2>q. QED BY <1>1, <2>1, <2>4, <2>5
<1>6. CASE Reset
  <2>1. Edit(DefaultCurve, 0) BY <1>6 DEF Reset
  <2>2. /\ points' = DefaultCurve /\ selected' = 0 /\ edited' = TRUE
        /\ edits' \in 0 .. MaxEdits
        /\ UNCHANGED <<daemon, original, tasks, saving, mailbox>>
    BY <1>2, <2>1
  <2>q. QED BY <2>2, DefaultCurveOK
<1>q. QED BY <1>3, <1>4, <1>5, <1>6

LEMMA WithinOK ==
  ASSUME TypeOK, NEW s \in Seq(Point)
  PROVE  Within(s) \in Nat /\ (Within(s) < Len(s) \/ Within(s) = 0)
<1>1. Len(s) \in Nat /\ (s # << >> => Len(s) > 0) BY LenProperties, EmptySeq
<1>q. QED BY <1>1 DEF Within, TypeOK

LEMMA TasksOK ==
  ASSUME TypeOK, NEW i \in 1 .. Len(tasks)
  PROVE  /\ RemoveAt(tasks, i) \in Seq(TaskType)
         /\ tasks[i] \in TaskType
         /\ \A j \in 1 .. Len(RemoveAt(tasks, i)) :
              \E k \in 1 .. Len(tasks) : RemoveAt(tasks, i)[j] = tasks[k]
<1>1. tasks \in Seq(TaskType) BY DEF TypeOK, TaskType
<1>2. Len(tasks) \in Nat BY <1>1, LenProperties
<1>3. /\ RemoveAt(tasks, i) \in Seq(TaskType)
      /\ Len(RemoveAt(tasks, i)) = Len(tasks) - 1
      /\ \A j \in 1 .. Len(tasks) - 1 :
           RemoveAt(tasks, i)[j] = IF j < i THEN tasks[j] ELSE tasks[j + 1]
  BY <1>1, RemoveProperties
<1>4. ASSUME NEW j \in 1 .. Len(tasks) - 1
      PROVE  \E k \in 1 .. Len(tasks) : RemoveAt(tasks, i)[j] = tasks[k]
  <2>1. j \in 1 .. Len(tasks) /\ j + 1 \in 1 .. Len(tasks) BY <1>2
  <2>q. QED BY <1>3, <2>1
<1>5. tasks[i] \in TaskType BY <1>1, ElementOfSeq
<1>q. QED BY <1>3, <1>4, <1>5

LEMMA InitTypeOK == Init => TypeOK
<1>1. << >> \in Seq(Point) BY EmptySeq
<1>2. << >> \in Seq(Seq(Point)) /\ << >> \in Seq(TaskType) BY EmptySeq
<1>3. Init => table \in [Profiles -> Seq(Point)] BY TabAssumption DEF Init
<1>4. 0 \in Nat /\ 0 \in 0 .. MaxEdits BY TabAssumption
<1>q. QED BY <1>1, <1>2, <1>3, <1>4 DEF Init, TypeOK, TaskType

LEMMA NextTypeOK == TypeOK /\ [Next]_vars => TypeOK'
<1> SUFFICES ASSUME TypeOK, [Next]_vars PROVE TypeOK' OBVIOUS
<1>t. tasks \in Seq(TaskType) BY DEF TypeOK, TaskType
<1>f. Fetch \in TaskType BY EmptySeq DEF Fetch, TaskType
<1>m. mailbox \in Seq(Seq(Point)) BY DEF TypeOK
<1>c. SendCurve => mailbox' \in Seq(Seq(Point))
  <2>1. table[active] \in Seq(Point) BY DEF TypeOK
  <2>q. QED BY <1>m, <2>1, AppendProperties DEF SendCurve
<1>1. CASE ShowTab
  <2>1. Append(tasks, Fetch) \in Seq(TaskType) BY <1>t, <1>f, AppendProperties
  <2>q. QED BY <1>1, <2>1 DEF ShowTab, TypeOK, TaskType, daemon, tab
<1>2. CASE MoveSelection
  <2>1. Len(points) \in Nat BY LenProperties DEF TypeOK
  <2>2. selected' \in Nat /\ (selected' < Len(points) \/ selected' = 0)
    BY <1>2, <2>1 DEF MoveSelection, TypeOK
  <2>q. QED BY <1>2, <2>2 DEF MoveSelection, TypeOK, daemon
<1>3. CASE Adjust \/ InsertPoint \/ RemovePoint \/ Reset
  BY <1>3, EditsOK DEF TypeOK, daemon
<1>4. CASE Save
  <2>1. [kind |-> "save", curve |-> points] \in TaskType
    BY DEF TypeOK, TaskType
  <2>2. Append(tasks, [kind |-> "save", curve |-> points]) \in Seq(TaskType)
    BY <1>t, <2>1, AppendProperties
  <2>q. QED BY <1>4, <2>2 DEF Save, TypeOK, TaskType, daemon
<1>5. CASE Discard
  BY <1>5, WithinOK DEF Discard, TypeOK, daemon
<1>6. CASE Switch BY <1>6 DEF Switch, TypeOK, tab
<1>7. CASE RunFetch
  BY <1>7, <1>c, TasksOK DEF RunFetch, TypeOK, TaskType, daemon, tab
<1>8. CASE RunSave
  <2>1. PICK i \in 1 .. Len(tasks) :
          /\ tasks' = RemoveAt(tasks, i)
          /\ table' = IF active \in BuiltIn THEN table
                      ELSE [table EXCEPT ![active] = tasks[i].curve]
    BY <1>8 DEF RunSave
  <2>2. tasks' \in Seq(TaskType) /\ tasks[i].curve \in Seq(Point)
    BY <2>1, TasksOK DEF TaskType
  <2>3. table' \in [Profiles -> Seq(Point)] BY <2>1, <2>2 DEF TypeOK
  <2>q. QED BY <1>8, <2>2, <2>3 DEF RunSave, TypeOK, TaskType, tab
<1>9. CASE ReadBack BY <1>9, <1>c DEF ReadBack, TypeOK, daemon, tab
<1>10. CASE Poll BY <1>10, <1>c DEF Poll, TypeOK, daemon, tab
<1>11. CASE ReceiveCurve
  <2>1. Head(mailbox) \in Seq(Point) /\ Tail(mailbox) \in Seq(Seq(Point))
    BY <1>11, <1>m, HeadTailProperties DEF ReceiveCurve
  <2>2. Within(Head(mailbox)) \in Nat
        /\ (Within(Head(mailbox)) < Len(Head(mailbox)) \/ Within(Head(mailbox)) = 0)
    BY <2>1, WithinOK
  <2>q. QED BY <1>11, <2>1, <2>2 DEF ReceiveCurve, TypeOK, daemon
<1>12. CASE UNCHANGED vars BY <1>12 DEF vars, TypeOK, daemon, tab
<1>q. QED
  BY <1>1, <1>2, <1>3, <1>4, <1>5, <1>6, <1>7, <1>8, <1>9, <1>10, <1>11, <1>12
  DEF Next, Key

(* Every variable keeps its type: whatever is inserted, removed or received, the
   selected point is one of the curve. *)
THEOREM TypeCorrect == Spec => []TypeOK
<1>q. QED BY InitTypeOK, NextTypeOK, PTL DEF Spec

-----------------------------------------------------------------------------
(* What is unsaved *)

(* The points and the points they are compared with differ only if a key has
   made them differ: in any order of saves, refusals, switches and late answers.
   A message that replaces the original replaces the points with it, unless they
   differ already. *)
THEOREM UnsavedIsEdited == Spec => []UnsavedMeansEdited
<1>1. Init => UnsavedMeansEdited
  BY DEF Init, UnsavedMeansEdited, Unsaved
<1>2. UnsavedMeansEdited /\ [Next]_vars => UnsavedMeansEdited'
  <2> SUFFICES ASSUME UnsavedMeansEdited, [Next]_vars PROVE UnsavedMeansEdited'
    OBVIOUS
  <2> USE DEF UnsavedMeansEdited, Unsaved
  <2>1. ASSUME NEW c, NEW n, Edit(c, n) PROVE UnsavedMeansEdited'
    BY <2>1 DEF Edit
  <2>2. CASE Adjust \/ InsertPoint \/ RemovePoint \/ Reset
    <3>1. \E c, n : Edit(c, n)
      BY <2>2 DEF Adjust, InsertPoint, RemovePoint, Reset
    <3>q. QED BY <2>1, <3>1
  <2>3. CASE Save BY <2>3 DEF Save
  <2>4. CASE Discard BY <2>4 DEF Discard
  <2>5. CASE ReceiveCurve BY <2>5 DEF ReceiveCurve
  <2>6. CASE UNCHANGED <<points, original, edited>> BY <2>6
  <2>q. QED
    BY <2>2, <2>3, <2>4, <2>5, <2>6
    DEF Next, Key, ShowTab, MoveSelection, Switch, RunFetch, RunSave, ReadBack,
        Poll, vars, tab
<1>q. QED BY <1>1, <1>2, PTL DEF Spec

-----------------------------------------------------------------------------
(* Order *)

(* A table is what a task saved, a task took it from the points, and these come
   from a message or from a key that worked on such: the order of tables depends
   on that of every curve on its way. *)
EveryCurveInOrder ==
  /\ InOrder(points) /\ InOrder(original)
  /\ \A p \in Profiles : InOrder(table[p])
  /\ \A i \in 1 .. Len(tasks) : InOrder(tasks[i].curve)
  /\ \A i \in 1 .. Len(mailbox) : InOrder(mailbox[i])

LEMMA EmptyInOrder == InOrder(<< >>)
BY DEF InOrder

LEMMA DefaultInOrder == InOrder(DefaultCurve)
<1>1. Len(DefaultCurve) = 5 BY DefaultCurveOK
<1>2. \A i \in 1 .. 5 : i \in {1, 2, 3, 4, 5} OBVIOUS
<1>3. /\ DefaultCurve[1] = P(0, 0) /\ DefaultCurve[2] = P(40, 20)
      /\ DefaultCurve[3] = P(60, 40) /\ DefaultCurve[4] = P(80, 70)
      /\ DefaultCurve[5] = P(100, 100)
  BY DEF DefaultCurve
<1>4. /\ DefaultCurve[1] = [temp |-> 0, speed |-> 0]
      /\ DefaultCurve[2] = [temp |-> 40, speed |-> 20]
      /\ DefaultCurve[3] = [temp |-> 60, speed |-> 40]
      /\ DefaultCurve[4] = [temp |-> 80, speed |-> 70]
      /\ DefaultCurve[5] = [temp |-> 100, speed |-> 100]
  BY <1>3 DEF P
<1> DEFINE c == DefaultCurve
<1>5. /\ c[1].temp = 0 /\ c[2].temp = 40 /\ c[3].temp = 60 /\ c[4].temp = 80
      /\ c[5].temp = 100 /\ c[1].speed = 0 /\ c[2].speed = 20
      /\ c[3].speed = 40 /\ c[4].speed = 70 /\ c[5].speed = 100
  BY <1>4
<1> HIDE DEF c
<1>6. \A i \in 1 .. 5 : c[i].temp <= 100 /\ c[i].speed <= 100 BY <1>2, <1>5
<1>7. \A i, j \in 1 .. 5 : i < j => c[i].temp <= c[j].temp BY <1>2, <1>5
<1>8. Len(c) = 5 BY <1>1 DEF c
<1>9. InOrder(c) BY <1>6, <1>7, <1>8 DEF InOrder
<1>q. QED BY <1>9 DEF c

(* The new point lies between its neighbours. *)
LEMMA BetweenInOrder ==
  ASSUME TypeOK, InOrder(points), NEW i \in 1 .. Len(points)
  PROVE  /\ Between(i) \in Point
         /\ Between(i).temp <= 100 /\ Between(i).speed <= 100
         /\ points[i].temp <= Between(i).temp
         /\ i < Len(points) => Between(i).temp <= points[i + 1].temp
<1>1. ASSUME NEW x \in 0 .. 100, NEW y \in 0 .. 100
      PROVE  /\ Mean(x, y) \in 0 .. 100
             /\ x <= y => x <= Mean(x, y) /\ Mean(x, y) <= y
  BY DEF Mean
<1>2. Len(points) \in Nat BY LenProperties DEF TypeOK
<1>3. ASSUME NEW k \in 1 .. Len(points)
      PROVE  points[k].temp \in 0 .. 100 /\ points[k].speed \in 0 .. 100
  <2>1. points[k] \in Point BY ElementOfSeq DEF TypeOK
  <2>2. points[k].temp <= 100 /\ points[k].speed <= 100 BY DEF InOrder
  <2>3. points[k].temp \in 0 .. 255 /\ points[k].speed \in 0 .. 255
    BY <2>1 DEF Point
  <2> DEFINE t == points[k].temp
             s == points[k].speed
  <2>4. t <= 100 /\ s <= 100 /\ t \in 0 .. 255 /\ s \in 0 .. 255
    BY <2>2, <2>3, Zenon
  <2> HIDE DEF t, s
  <2>5. t \in 0 .. 100 /\ s \in 0 .. 100 BY <2>4
  <2>q. QED BY <2>5, Zenon DEF t, s
<1>0. Between(i) \in Point BY BetweenOK
<1>4. CASE i < Len(points)
  <2>1. i + 1 \in 1 .. Len(points) /\ i < i + 1 BY <1>2, <1>4
  <2>2. points[i].temp <= points[i + 1].temp BY <2>1 DEF InOrder
  <2>3. Between(i) = [temp |-> Mean(points[i].temp, points[i + 1].temp),
                      speed |-> Mean(points[i].speed, points[i + 1].speed)]
    BY <1>4 DEF Between, P
  <2>4. /\ Mean(points[i].temp, points[i + 1].temp) \in 0 .. 100
        /\ points[i].temp <= Mean(points[i].temp, points[i + 1].temp)
        /\ Mean(points[i].temp, points[i + 1].temp) <= points[i + 1].temp
        /\ Mean(points[i].speed, points[i + 1].speed) \in 0 .. 100
    BY <1>1, <1>3, <2>1, <2>2
  <2>5. /\ Between(i).temp = Mean(points[i].temp, points[i + 1].temp)
        /\ Between(i).speed = Mean(points[i].speed, points[i + 1].speed)
    BY <2>3
  <2> DEFINE t == Between(i).temp
             s == Between(i).speed
             low == points[i].temp
             high == points[i + 1].temp
  <2>6. /\ t \in 0 .. 100 /\ low <= t /\ t <= high /\ s \in 0 .. 100
    BY <2>4, <2>5, Zenon
  <2> HIDE DEF t, s, low, high
  <2>7. t <= 100 /\ s <= 100 BY <2>6
  <2>q. QED BY <1>0, <2>6, <2>7, Zenon DEF t, s, low, high
<1>5. CASE ~ i < Len(points)
  <2>1. Between(i) = [temp |-> Mean(points[i].temp, 100),
                      speed |-> Mean(points[i].speed, 100)]
    BY <1>5 DEF Between, P
  <2>2. points[i].temp \in 0 .. 100 /\ points[i].speed \in 0 .. 100 BY <1>3
  <2>3. /\ Mean(points[i].temp, 100) \in 0 .. 100
        /\ points[i].temp <= Mean(points[i].temp, 100)
        /\ Mean(points[i].speed, 100) \in 0 .. 100
    <3>1. ASSUME NEW x \in 0 .. 100
          PROVE  Mean(x, 100) \in 0 .. 100 /\ x <= Mean(x, 100)
      BY DEF Mean
    <3>q. QED BY <2>2, <3>1, Zenon
  <2>4. /\ Between(i).temp = Mean(points[i].temp, 100)
        /\ Between(i).speed = Mean(points[i].speed, 100)
    BY <2>1
  <2> DEFINE t == Between(i).temp
             s == Between(i).speed
             low == points[i].temp
  <2>5. t \in 0 .. 100 /\ low <= t /\ s \in 0 .. 100 BY <2>3, <2>4, Zenon
  <2> HIDE DEF t, s, low
  <2>6. t <= 100 /\ s <= 100 BY <2>5
  <2>q. QED BY <1>0, <1>5, <2>5, <2>6, Zenon DEF t, s, low
<1>q. QED BY <1>4, <1>5

(* No key that changes the points puts them out of order. *)
LEMMA EditsInOrder ==
  ASSUME TypeOK, InOrder(points), Adjust \/ InsertPoint \/ RemovePoint \/ Reset
  PROVE  InOrder(points')
<1>1. Len(points) \in Nat /\ selected \in Nat /\ points \in Seq(Point)
  BY LenProperties DEF TypeOK
<1>o. /\ \A i \in 1 .. Len(points) : points[i].temp <= 100 /\ points[i].speed <= 100
      /\ \A i, j \in 1 .. Len(points) : i < j => points[i].temp <= points[j].temp
  BY DEF InOrder
<1>n. \A i \in 1 .. Len(points) : points[i].temp \in Nat
  <2> SUFFICES ASSUME NEW i \in 1 .. Len(points) PROVE points[i].temp \in Nat
    OBVIOUS
  <2>1. points[i] \in Point BY <1>1, ElementOfSeq
  <2>2. points[i].temp \in 0 .. 255 BY <2>1 DEF Point
  <2>3. 0 .. 255 \subseteq Nat OBVIOUS
  <2>q. QED BY <2>2, <2>3, Zenon
<1>2. CASE Adjust
  <2>1. selected + 1 \in 1 .. Len(points) BY <1>1, <1>2 DEF Adjust
  <2>2. points[selected + 1] \in Point BY <1>1, <2>1, ElementOfSeq
  <2> DEFINE now == points[selected + 1].speed
  <2>3. PICK x \in {IF now + 5 < 100 THEN now + 5 ELSE 100,
                    IF now > 5 THEN now - 5 ELSE 0} :
          Edit([points EXCEPT ![selected + 1].speed = x], selected)
    BY <1>2 DEF Adjust
  <2>4. x \in 0 .. 255 /\ x <= 100
    <3>1. now \in 0 .. 255 /\ now <= 100 BY <1>o, <2>1, <2>2 DEF Point
    <3> HIDE DEF now
    <3>q. QED BY <2>3, <3>1
  <2> DEFINE e == [points[selected + 1] EXCEPT !.speed = x]
  <2>5. e \in Point /\ e.temp = points[selected + 1].temp /\ e.speed = x
    BY <2>2, <2>4 DEF Point
  <2>6. points' = [points EXCEPT ![selected + 1] = e] BY <2>3 DEF Edit
  <2> HIDE DEF e, now
  <2>7. /\ Len(points') = Len(points)
        /\ \A i \in 1 .. Len(points) :
             points'[i] = IF i = selected + 1 THEN e ELSE points[i]
    BY <1>1, <2>1, <2>5, <2>6, ExceptSeq
  <2>8. \A i \in 1 .. Len(points) :
          points'[i].temp = points[i].temp /\ points'[i].speed <= 100
    BY <1>o, <2>4, <2>5, <2>7
  <2>q. QED BY <1>o, <2>7, <2>8 DEF InOrder
<1>3. CASE InsertPoint
  <2> DEFINE n == selected + 1
             b == Between(n)
  <2>1. n \in 1 .. Len(points) /\ n + 1 \in 1 .. Len(points) + 1
        /\ selected + 2 = n + 1
    BY <1>1, <1>3 DEF InsertPoint
  <2>2. /\ b \in Point
        /\ b.temp <= 100 /\ b.speed <= 100
        /\ points[n].temp <= b.temp
        /\ n < Len(points) => b.temp <= points[n + 1].temp
    BY <2>1, BetweenInOrder
  <2>3. points' = InsertAt(points, n + 1, b)
    BY <1>3, <2>1 DEF InsertPoint, Edit
  <2> HIDE DEF n, b
  <2>4. /\ Len(points') = Len(points) + 1
        /\ \A i \in 1 .. Len(points) + 1 :
             points'[i] = IF i < n + 1 THEN points[i]
                          ELSE IF i = n + 1 THEN b ELSE points[i - 1]
    <3> DEFINE m == n + 1
    <3>1. m \in 1 .. Len(points) + 1 BY <2>1
    <3> HIDE DEF m
    <3>2. /\ Len(InsertAt(points, m, b)) = Len(points) + 1
          /\ \A j \in 1 .. Len(points) + 1 :
               InsertAt(points, m, b)[j] =
                 IF j < m THEN points[j] ELSE IF j = m THEN b ELSE points[j - 1]
      BY <1>1, <2>2, <3>1, InsertProperties
    <3>q. QED BY <2>3, <3>2, Zenon DEF m
  <2>b. b.temp \in Nat
    <3>1. b.temp \in 0 .. 255 BY <2>2 DEF Point
    <3>2. 0 .. 255 \subseteq Nat OBVIOUS
    <3>q. QED BY <3>1, <3>2, Zenon
  <2>l. \A i \in 1 .. n : points[i].temp <= b.temp
    <3> SUFFICES ASSUME NEW i \in 1 .. n PROVE points[i].temp <= b.temp OBVIOUS
    <3>1. i \in 1 .. Len(points) /\ (i < n \/ i = n) BY <1>1, <2>1
    <3>2. points[i].temp <= points[n].temp BY <1>n, <1>o, <2>1, <3>1
    <3>q. QED BY <1>n, <2>1, <2>2, <2>b, <3>1, <3>2
  <2>r. \A i \in n + 1 .. Len(points) : b.temp <= points[i].temp
    <3> SUFFICES ASSUME NEW i \in n + 1 .. Len(points)
                 PROVE  b.temp <= points[i].temp
      OBVIOUS
    <3>1. /\ i \in 1 .. Len(points) /\ n + 1 \in 1 .. Len(points)
          /\ n < Len(points) /\ (n + 1 < i \/ n + 1 = i)
      BY <1>1, <2>1
    <3>2. points[n + 1].temp <= points[i].temp BY <1>n, <1>o, <3>1
    <3>q. QED BY <1>n, <2>2, <2>b, <3>1, <3>2
  <2>5. ASSUME NEW i \in 1 .. Len(points')
        PROVE  points'[i].temp <= 100 /\ points'[i].speed <= 100
    <3>1. CASE i < n + 1
      <4>1. i \in 1 .. Len(points) BY <1>1, <2>1, <3>1
      <4>q. QED BY <1>o, <2>4, <3>1, <4>1
    <3>2. CASE i = n + 1 BY <2>1, <2>2, <2>4, <3>2
    <3>3. CASE i > n + 1
      <4>1. i - 1 \in 1 .. Len(points) /\ ~ i < n + 1 /\ i # n + 1
        BY <1>1, <2>1, <2>4, <3>3
      <4>q. QED BY <1>o, <2>4, <4>1
    <3>4. i < n + 1 \/ i = n + 1 \/ i > n + 1 BY <2>1, <2>4
    <3>q. QED BY <3>1, <3>2, <3>3, <3>4
  <2>6. ASSUME NEW i \in 1 .. Len(points'), NEW j \in 1 .. Len(points'), i < j
        PROVE  points'[i].temp <= points'[j].temp
    <3>0. /\ i \in 1 .. Len(points) + 1 /\ j \in 1 .. Len(points) + 1
          /\ n \in Nat /\ i \in Nat /\ j \in Nat
      BY <2>1, <2>4
    <3>1. CASE j < n + 1
      <4>1. i < n + 1 /\ i \in 1 .. Len(points) /\ j \in 1 .. Len(points)
        BY <1>1, <2>1, <2>6, <3>0, <3>1
      <4>2. points'[i] = points[i] /\ points'[j] = points[j]
        BY <2>4, <3>0, <3>1, <4>1
      <4>q. QED BY <1>o, <2>6, <4>1, <4>2
    <3>2. CASE j = n + 1
      <4>1. i < n + 1 /\ i \in 1 .. n BY <2>6, <3>0, <3>2
      <4>2. points'[i] = points[i] /\ points'[j] = b BY <2>4, <3>0, <3>2, <4>1
      <4>q. QED BY <2>l, <4>1, <4>2
    <3>3. CASE j > n + 1
      <4>1. /\ j - 1 \in n + 1 .. Len(points) /\ ~ j < n + 1 /\ j # n + 1
            /\ j - 1 \in 1 .. Len(points)
        BY <1>1, <2>1, <3>0, <3>3
      <4>2. points'[j] = points[j - 1] BY <2>4, <3>0, <4>1
      <4>3. CASE i < n + 1
        <5>1. i \in 1 .. Len(points) /\ i < j - 1 BY <1>1, <2>1, <3>0, <3>3, <4>3
        <5>2. points'[i] = points[i] BY <2>4, <3>0, <4>3
        <5>q. QED BY <1>o, <4>1, <4>2, <5>1, <5>2
      <4>4. CASE i = n + 1
        <5>1. points'[i] = b BY <2>4, <3>0, <4>4
        <5>q. QED BY <2>r, <4>1, <4>2, <5>1
      <4>5. CASE i > n + 1
        <5>1. /\ i - 1 \in 1 .. Len(points) /\ i - 1 < j - 1
              /\ ~ i < n + 1 /\ i # n + 1
          BY <1>1, <2>1, <2>6, <3>0, <4>5
        <5>2. points'[i] = points[i - 1] BY <2>4, <3>0, <5>1
        <5>q. QED BY <1>o, <4>1, <4>2, <5>1, <5>2
      <4>6. i < n + 1 \/ i = n + 1 \/ i > n + 1 BY <3>0
      <4>q. QED BY <4>3, <4>4, <4>5, <4>6
    <3>4. j < n + 1 \/ j = n + 1 \/ j > n + 1 BY <3>0
    <3>q. QED BY <3>1, <3>2, <3>3, <3>4
  <2>q. QED BY <2>5, <2>6 DEF InOrder
<1>4. CASE RemovePoint
  <2> DEFINE n == selected + 1
             at(i) == IF i < n THEN i ELSE i + 1
  <2>1. n \in 1 .. Len(points) BY <1>1, <1>4 DEF RemovePoint
  <2>2. points' = RemoveAt(points, n) BY <1>4 DEF RemovePoint, Edit
  <2>3. /\ Len(points') = Len(points) - 1
        /\ \A i \in 1 .. Len(points) - 1 :
             points'[i] = IF i < n THEN points[i] ELSE points[i + 1]
    BY <1>1, <2>1, <2>2, RemoveProperties
  <2>4. ASSUME NEW i \in 1 .. Len(points')
        PROVE  at(i) \in 1 .. Len(points) /\ points'[i] = points[at(i)]
    <3> HIDE DEF n
    <3>q. QED BY <1>1, <2>1, <2>3
  <2>5. ASSUME NEW i \in 1 .. Len(points'), NEW j \in 1 .. Len(points'), i < j
        PROVE  at(i) < at(j)
    <3> HIDE DEF n
    <3>q. QED BY <1>1, <2>1, <2>3, <2>5
  <2> HIDE DEF at, n
  <2>q. QED BY <1>o, <2>4, <2>5 DEF InOrder
<1>5. CASE Reset
  <2>1. points' = DefaultCurve BY <1>5 DEF Reset, Edit
  <2>q. QED BY <2>1, DefaultInOrder
<1>q. QED BY <1>2, <1>3, <1>4, <1>5

LEMMA NextInOrder ==
  TypeOK /\ EveryCurveInOrder /\ [Next]_vars => EveryCurveInOrder'
<1> SUFFICES ASSUME TypeOK, EveryCurveInOrder, [Next]_vars
             PROVE  EveryCurveInOrder'
  OBVIOUS
<1>t. tasks \in Seq(TaskType) /\ Len(tasks) \in Nat
  BY LenProperties DEF TypeOK, TaskType
<1>m. mailbox \in Seq(Seq(Point)) /\ Len(mailbox) \in Nat
  BY LenProperties DEF TypeOK
<1>c. SendCurve => \A i \in 1 .. Len(mailbox') : InOrder(mailbox'[i])
  <2> SUFFICES ASSUME SendCurve PROVE \A i \in 1 .. Len(mailbox') : InOrder(mailbox'[i])
    OBVIOUS
  <2>1. table[active] \in Seq(Point) /\ InOrder(table[active])
    BY DEF TypeOK, EveryCurveInOrder
  <2>2. /\ Len(mailbox') = Len(mailbox) + 1
        /\ \A i \in 1 .. Len(mailbox) : mailbox'[i] = mailbox[i]
        /\ mailbox'[Len(mailbox) + 1] = table[active]
    BY <1>m, <2>1, AppendProperties DEF SendCurve
  <2>3. \A i \in 1 .. Len(mailbox') : i \in 1 .. Len(mailbox) \/ i = Len(mailbox) + 1
    BY <1>m, <2>2
  <2>q. QED BY <2>1, <2>2, <2>3 DEF EveryCurveInOrder
<1>s. ASSUME NEW x \in TaskType, InOrder(x.curve), tasks' = Append(tasks, x)
      PROVE  \A i \in 1 .. Len(tasks') : InOrder(tasks'[i].curve)
  <2>1. /\ Len(tasks') = Len(tasks) + 1
        /\ \A i \in 1 .. Len(tasks) : tasks'[i] = tasks[i]
        /\ tasks'[Len(tasks) + 1] = x
    BY <1>t, <1>s, AppendProperties
  <2>2. \A i \in 1 .. Len(tasks') : i \in 1 .. Len(tasks) \/ i = Len(tasks) + 1
    BY <1>t, <2>1
  <2>q. QED BY <1>s, <2>1, <2>2 DEF EveryCurveInOrder
<1>r. ASSUME NEW i \in 1 .. Len(tasks), tasks' = RemoveAt(tasks, i)
      PROVE  \A j \in 1 .. Len(tasks') : InOrder(tasks'[j].curve)
  <2>1. \A j \in 1 .. Len(tasks') : \E k \in 1 .. Len(tasks) : tasks'[j] = tasks[k]
    BY <1>r, TasksOK
  <2>q. QED BY <2>1 DEF EveryCurveInOrder
<1>1. CASE ShowTab
  <2>1. Fetch \in TaskType /\ InOrder(Fetch.curve)
    BY EmptySeq, EmptyInOrder DEF Fetch, TaskType
  <2>2. \A i \in 1 .. Len(tasks') : InOrder(tasks'[i].curve)
    BY <1>1, <1>s, <2>1 DEF ShowTab
  <2>q. QED BY <1>1, <2>2 DEF ShowTab, EveryCurveInOrder, daemon, tab
<1>2. CASE MoveSelection
  BY <1>2 DEF MoveSelection, EveryCurveInOrder, daemon
<1>3. CASE Adjust \/ InsertPoint \/ RemovePoint \/ Reset
  BY <1>3, EditsOK, EditsInOrder DEF EveryCurveInOrder, daemon
<1>4. CASE Save
  <2> DEFINE x == [kind |-> "save", curve |-> points]
  <2>1. x \in TaskType /\ x.curve = points BY DEF TypeOK, TaskType
  <2>2. InOrder(x.curve) BY <2>1 DEF EveryCurveInOrder
  <2>3. tasks' = Append(tasks, x) BY <1>4 DEF Save
  <2> HIDE DEF x
  <2>4. \A i \in 1 .. Len(tasks') : InOrder(tasks'[i].curve)
    BY <1>s, <2>1, <2>2, <2>3
  <2>q. QED BY <1>4, <2>4 DEF Save, EveryCurveInOrder, daemon
<1>5. CASE Discard
  BY <1>5 DEF Discard, EveryCurveInOrder, daemon
<1>6. CASE Switch BY <1>6 DEF Switch, EveryCurveInOrder, tab
<1>7. CASE RunFetch
  BY <1>7, <1>c, <1>r DEF RunFetch, EveryCurveInOrder, daemon, tab
<1>8. CASE RunSave
  <2>1. PICK i \in 1 .. Len(tasks) :
          /\ tasks' = RemoveAt(tasks, i)
          /\ table' = IF active \in BuiltIn THEN table
                      ELSE [table EXCEPT ![active] = tasks[i].curve]
    BY <1>8 DEF RunSave
  <2>2. \A j \in 1 .. Len(tasks') : InOrder(tasks'[j].curve) BY <1>r, <2>1
  <2>3. \A p \in Profiles : table'[p] \in {table[p], tasks[i].curve}
    BY <2>1 DEF TypeOK
  <2>4. \A p \in Profiles : InOrder(table'[p]) BY <2>3 DEF EveryCurveInOrder
  <2>q. QED BY <1>8, <2>2, <2>4 DEF RunSave, EveryCurveInOrder, tab
<1>9. CASE ReadBack BY <1>9, <1>c DEF ReadBack, EveryCurveInOrder, daemon, tab
<1>10. CASE Poll BY <1>10, <1>c DEF Poll, EveryCurveInOrder, daemon, tab
<1>11. CASE ReceiveCurve
  <2>1. mailbox # << >> /\ mailbox' = Tail(mailbox) BY <1>11 DEF ReceiveCurve
  <2>2. /\ Len(mailbox) > 0 /\ Len(mailbox') = Len(mailbox) - 1
        /\ \A i \in 1 .. Len(mailbox') : mailbox'[i] = mailbox[i + 1]
    BY <1>m, <2>1, HeadTailProperties, EmptySeq
  <2>3. \A i \in 1 .. Len(mailbox') : i + 1 \in 1 .. Len(mailbox)
    BY <1>m, <2>2
  <2>4. Head(mailbox) = mailbox[1] /\ 1 \in 1 .. Len(mailbox)
    BY <1>m, <2>1, <2>2
  <2>5. InOrder(Head(mailbox)) BY <2>4 DEF EveryCurveInOrder
  <2>6. \A i \in 1 .. Len(mailbox') : InOrder(mailbox'[i])
    BY <2>2, <2>3 DEF EveryCurveInOrder
  <2>q. QED BY <1>11, <2>5, <2>6 DEF ReceiveCurve, EveryCurveInOrder, daemon
<1>12. CASE UNCHANGED vars BY <1>12 DEF vars, EveryCurveInOrder, daemon, tab
<1>q. QED
  BY <1>1, <1>2, <1>3, <1>4, <1>5, <1>6, <1>7, <1>8, <1>9, <1>10, <1>11, <1>12
  DEF Next, Key

(* Every table stays in order, if they are to begin with: whatever is inserted,
   removed, reset, saved into whichever profile is active then, and sent back,
   in any order. *)
THEOREM TablesStayInOrder ==
  ASSUME \A c \in Tables : InOrder(c)
  PROVE  Spec => []StaysInOrder
<1>1. Init => EveryCurveInOrder
  <2> SUFFICES ASSUME Init PROVE EveryCurveInOrder OBVIOUS
  <2>1. \A p \in Profiles : InOrder(table[p]) BY DEF Init
  <2>2. Len(tasks) = 0 /\ Len(mailbox) = 0 BY EmptySeq DEF Init
  <2>q. QED BY <2>1, <2>2, EmptyInOrder DEF Init, EveryCurveInOrder
<1>2. EveryCurveInOrder => StaysInOrder BY DEF EveryCurveInOrder, StaysInOrder
<1>q. QED BY <1>1, <1>2, InitTypeOK, NextTypeOK, NextInOrder, PTL DEF Spec
=============================================================================
