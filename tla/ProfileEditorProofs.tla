------------------------- MODULE ProfileEditorProofs -------------------------
(***************************************************************************)
(* Theorems about ProfileEditor, for any profiles, keys and bound: the     *)
(* types, that the tab shows what the daemon has when nothing is on its    *)
(* way, and that an editor which was opened alone holds its profile and    *)
(* the edits made to it.                                                   *)
(***************************************************************************)
EXTENDS ProfileEditor, SequenceTheorems, TLAPS

-----------------------------------------------------------------------------
(* The store behind the tab *)

StoreP == INSTANCE ProfileStoreProofs

(* What the theorems about the store speak of is the store of the daemon. *)
LEMMA SameStore ==
  /\ Store!TypeOK <=> StoreP!TypeOK
  /\ Store!Init <=> StoreP!Init
  /\ Store!vars = StoreP!vars
BY DEF Store!TypeOK, StoreP!TypeOK, Store!Init, StoreP!Init, Store!vars, StoreP!vars,
  Store!Profile, StoreP!Profile, Store!Settings, StoreP!Settings,
  Store!DefaultProfiles, StoreP!DefaultProfiles,
  Store!DefaultSettings, StoreP!DefaultSettings, Store!File, StoreP!File

LEMMA SameNext == Store!Next <=> StoreP!Next
BY DEF Store!Next, StoreP!Next, Store!Start, StoreP!Start, Store!Stop, StoreP!Stop,
  Store!Method, StoreP!Method, Store!SaveStep, StoreP!SaveStep,
  Store!CreateProfile, StoreP!CreateProfile, Store!CopyProfile, StoreP!CopyProfile,
  Store!UpdateProfile, StoreP!UpdateProfile, Store!DeleteProfile, StoreP!DeleteProfile,
  Store!SetActiveProfile, StoreP!SetActiveProfile, Store!UpdateSettings, StoreP!UpdateSettings,
  Store!Save, StoreP!Save, Store!Refuse, StoreP!Refuse, Store!OpenProfiles, StoreP!OpenProfiles,
  Store!WriteProfiles, StoreP!WriteProfiles, Store!SaveProfilesFails, StoreP!SaveProfilesFails,
  Store!OpenSettings, StoreP!OpenSettings, Store!WriteSettings, StoreP!WriteSettings,
  Store!SaveSettingsFails, StoreP!SaveSettingsFails, Store!LoadProfiles, StoreP!LoadProfiles,
  Store!LoadSettings, StoreP!LoadSettings, Store!Customs, StoreP!Customs,
  Store!IsDefault, StoreP!IsDefault, Store!Profile, StoreP!Profile, Store!Has, StoreP!Has,
  Store!First, StoreP!First, Store!Without, StoreP!Without, Store!Valid, StoreP!Valid,
  Store!DefaultProfiles, StoreP!DefaultProfiles,
  Store!DefaultSettings, StoreP!DefaultSettings

LEMMA InitStore == Store!Init => Store!TypeOK
<1>1. StoreP!Init => StoreP!TypeOK BY EditorAssumption, StoreP!InitTypeOK
<1>q. QED BY <1>1, SameStore

LEMMA NextStore == Store!TypeOK /\ [Store!Next]_(Store!vars) => Store!TypeOK'
<1>1. StoreP!TypeOK /\ [StoreP!Next]_(StoreP!vars) => StoreP!TypeOK'
  BY EditorAssumption, StoreP!NextTypeOK
<1>2. Store!TypeOK' <=> StoreP!TypeOK' BY SameStore, PTL
<1>3. Store!vars' = StoreP!vars' BY DEF Store!vars, StoreP!vars
<1>q. QED BY <1>1, <1>2, <1>3, SameStore, SameNext

(* The profile that a lookup finds. *)
LEMMA FirstOfStore ==
  ASSUME Store!TypeOK, NEW id, Store!Has(profiles, id)
  PROVE  /\ profiles[Store!First(profiles, id)] \in Store!Profile
         /\ profiles[Store!First(profiles, id)].id = id
<1>1. profiles \in Seq(StoreP!Profile) /\ StoreP!Has(profiles, id)
  BY SameStore DEF StoreP!TypeOK, Store!Has, StoreP!Has
<1>2. /\ StoreP!First(profiles, id) \in 1 .. Len(profiles)
      /\ profiles[StoreP!First(profiles, id)].id = id
  BY <1>1, EditorAssumption, StoreP!FirstProperties
<1>3. Store!First(profiles, id) = StoreP!First(profiles, id)
  BY DEF Store!First, StoreP!First
<1>4. StoreP!Profile = Store!Profile BY DEF Store!Profile, StoreP!Profile
<1>q. QED BY <1>1, <1>2, <1>3, <1>4, ElementOfSeq

-----------------------------------------------------------------------------
(* Queues of calls, of messages and of tasks *)

Includes(q, k) == \E i \in 1 .. Len(q) : q[i].kind = k

(* The rest of a queue. *)
LEMMA Rest ==
  ASSUME NEW S, NEW q \in Seq(S), q # << >>
  PROVE  /\ Tail(q) \in Seq(S) /\ Head(q) \in S /\ Head(q) = q[1]
         /\ Len(q) \in Nat /\ Len(Tail(q)) = Len(q) - 1 /\ 1 \in 1 .. Len(q)
         /\ \A i \in 1 .. Len(Tail(q)) : i + 1 \in 1 .. Len(q) /\ Tail(q)[i] = q[i + 1]
         /\ \A i \in 1 .. Len(q) : i = 1 \/ i - 1 \in 1 .. Len(Tail(q))
         /\ \A k : Includes(q, k) <=> Head(q).kind = k \/ Includes(Tail(q), k)
<1>1. /\ Tail(q) \in Seq(S) /\ Head(q) \in S /\ Len(Tail(q)) = Len(q) - 1
      /\ \A i \in 1 .. Len(Tail(q)) : Tail(q)[i] = q[i + 1]
  BY HeadTailProperties
<1>2. Len(q) \in Nat \ {0} /\ Head(q) = q[1] BY EmptySeq
<1> DEFINE r == Tail(q)
<1> HIDE DEF r
<1>3. Len(r) = Len(q) - 1 /\ \A i \in 1 .. Len(r) : r[i] = q[i + 1] BY <1>1 DEF r
<1>4. /\ 1 \in 1 .. Len(q)
      /\ \A i \in 1 .. Len(r) : i + 1 \in 1 .. Len(q)
      /\ \A i \in 1 .. Len(q) : i = 1 \/ (i - 1 \in 1 .. Len(r) /\ (i - 1) + 1 = i)
  BY <1>2, <1>3
<1>5. ASSUME NEW k PROVE Includes(q, k) <=> q[1].kind = k \/ Includes(r, k)
  <2>1. Includes(r, k) => Includes(q, k) BY <1>3, <1>4 DEF Includes
  <2>2. q[1].kind = k => Includes(q, k) BY <1>4 DEF Includes
  <2>3. ASSUME NEW i \in 1 .. Len(q), q[i].kind = k, i # 1 PROVE Includes(r, k)
    <3>1. i - 1 \in 1 .. Len(r) /\ r[i - 1] = q[i] BY <1>3, <1>4, <2>3
    <3>q. QED BY <2>3, <3>1 DEF Includes
  <2>q. QED BY <2>1, <2>2, <2>3 DEF Includes
<1>q. QED BY <1>1, <1>2, <1>4, <1>5 DEF r

(* A queue with another behind it. *)
LEMMA Joined ==
  ASSUME NEW S, NEW q \in Seq(S), NEW new \in Seq(S)
  PROVE  LET r == q \o new IN
         /\ r \in Seq(S) /\ Len(q) \in Nat /\ Len(r) \in Nat
         /\ \A i \in 1 .. Len(r) : \/ i \in 1 .. Len(q) /\ r[i] = q[i]
                                   \/ i - Len(q) \in 1 .. Len(new) /\ r[i] = new[i - Len(q)]
         /\ \A i \in 1 .. Len(q) : i \in 1 .. Len(r) /\ r[i] = q[i]
         /\ \A i \in 1 .. Len(new) : Len(q) + i \in 1 .. Len(r) /\ r[Len(q) + i] = new[i]
         /\ \A i, j \in 1 .. Len(r) : i - Len(q) = j - Len(q) => i = j
<1> DEFINE r == q \o new
           n == Len(q)
           m == Len(new)
<1>1. n \in Nat /\ m \in Nat BY LenProperties
<1>2. /\ r \in Seq(S) /\ Len(r) = n + m
      /\ \A i \in 1 .. n + m : r[i] = IF i <= n THEN q[i] ELSE new[i - n]
  BY ConcatProperties
<1> HIDE DEF r, n, m
<1>3. ASSUME NEW i \in 1 .. Len(r)
      PROVE  (i \in 1 .. n /\ r[i] = q[i]) \/ (i - n \in 1 .. m /\ r[i] = new[i - n])
  BY <1>1, <1>2
<1>4. ASSUME NEW i \in 1 .. n PROVE i \in 1 .. Len(r) /\ r[i] = q[i] BY <1>1, <1>2
<1>5. ASSUME NEW i \in 1 .. m PROVE n + i \in 1 .. Len(r) /\ r[n + i] = new[i]
  <2>1. n + i \in 1 .. n + m /\ ~ (n + i <= n) /\ (n + i) - n = i BY <1>1
  <2>q. QED BY <1>2, <2>1
<1>6. \A i, j \in 1 .. Len(r) : i - n = j - n => i = j BY <1>1, <1>2
<1>q. QED BY <1>1, <1>2, <1>3, <1>4, <1>5, <1>6 DEF r, n, m

(* The tasks without the one that gets the client. *)
LEMMA Others ==
  ASSUME NEW S, NEW q \in Seq(S), NEW pos \in 1 .. Len(q)
  PROVE  LET r == Store!Without(q, pos)
             at(i) == IF i < pos THEN i ELSE i + 1 IN
         /\ r \in Seq(S)
         /\ \A i \in 1 .. Len(r) : at(i) \in 1 .. Len(q) /\ at(i) # pos /\ r[i] = q[at(i)]
         /\ \A i, j \in 1 .. Len(r) : at(i) = at(j) => i = j
         /\ \A i \in 1 .. Len(q) : i # pos => \E j \in 1 .. Len(r) : r[j] = q[i]
<1> DEFINE r == Store!Without(q, pos)
           at(i) == IF i < pos THEN i ELSE i + 1
           n == Len(q)
<1>1. n \in Nat /\ n - 1 \in Nat /\ pos \in 1 .. n BY LenProperties
<1>2. r = [i \in 1 .. n - 1 |-> IF i < pos THEN q[i] ELSE q[i + 1]]
  BY DEF Store!Without
<1>3. \A i \in 1 .. n - 1 : at(i) \in 1 .. n /\ at(i) # pos
  BY <1>1
<1>4. ASSUME NEW i \in 1 .. n - 1
      PROVE  (IF i < pos THEN q[i] ELSE q[i + 1]) = q[at(i)]
  OBVIOUS
<1>5. \A i, j \in 1 .. n - 1 : at(i) = at(j) => i = j BY <1>1
<1>6. ASSUME NEW i \in 1 .. n, i # pos PROVE \E j \in 1 .. n - 1 : at(j) = i
  <2>1. CASE i < pos
    <3>1. i \in 1 .. n - 1 /\ at(i) = i BY <1>1, <2>1
    <3>q. QED BY <3>1
  <2>2. CASE i > pos
    <3>1. i - 1 \in 1 .. n - 1 /\ at(i - 1) = i BY <1>1, <2>2
    <3>q. QED BY <3>1
  <2>q. QED BY <1>1, <1>6, <2>1, <2>2
<1> HIDE DEF at, n
<1>7. r = [i \in 1 .. n - 1 |-> q[at(i)]] BY <1>2, <1>4
<1>8. \A i \in 1 .. n : q[i] \in S BY ElementOfSeq DEF n
<1>9. r \in Seq(S) /\ Len(r) = n - 1 /\ \A i \in 1 .. n - 1 : r[i] = q[at(i)]
  <2>1. r \in [1 .. n - 1 -> S] BY <1>3, <1>7, <1>8
  <2> HIDE DEF r
  <2>2. \A i \in 1 .. n - 1 : r[i] = q[at(i)] BY <1>7
  <2>q. QED BY <1>1, <2>1, <2>2
<1> HIDE DEF r
<1>10. \A i \in 1 .. Len(r) : at(i) \in 1 .. n /\ at(i) # pos /\ r[i] = q[at(i)]
  BY <1>3, <1>9
<1>11. \A i \in 1 .. n : i # pos => \E j \in 1 .. Len(r) : r[j] = q[i]
  <2> SUFFICES ASSUME NEW i \in 1 .. n, i # pos PROVE \E j \in 1 .. Len(r) : r[j] = q[i]
    OBVIOUS
  <2>1. PICK j \in 1 .. n - 1 : at(j) = i BY <1>6
  <2>q. QED BY <1>9, <2>1
<1>q. QED BY <1>5, <1>9, <1>10, <1>11 DEF r, at, n

-----------------------------------------------------------------------------
(* What is on its way.  A task reads again what its calls may have changed, and
   the one that asks for a profile does nothing else. *)

CallType ==
  [kind : {"list", "assignments"}, id : {None}]
    \cup [kind : {"copy", "delete", "detail"}, id : Ids]
    \cup [kind : {"assign"}, id : Ids, state : PowerStates]
    \cup [kind : {"update"}, id : Ids, profile : Store!Profile]

MessageType ==
  [kind : {"list"}, data : Seq(Store!Profile)]
    \cup [kind : {"assignments"}, data : [PowerStates -> Ids]]
    \cup [kind : {"detail"}, data : Store!Profile]

ChangesProfiles == {"copy", "delete", "update"}
ChangesAssignments == {"delete", "assign"}
Changes == ChangesProfiles \cup ChangesAssignments

ReadsAgain(q) ==
  \A i \in 1 .. Len(q) :
    /\ q[i].kind \in ChangesProfiles => \E j \in 1 .. Len(q) : i < j /\ q[j].kind = "list"
    /\ q[i].kind \in ChangesAssignments =>
         \E j \in 1 .. Len(q) : i < j /\ q[j].kind = "assignments"

TaskType ==
  {q \in Seq(CallType) : ReadsAgain(q) /\ (Includes(q, "detail") => Len(q) = 1)}

(* Nothing has been changed before the daemon has started. *)
Loaded ==
  pc = "down" =>
    /\ profiles = Store!LoadProfiles(profilesFile)
    /\ settings = Store!LoadSettings(settingsFile)

(* The call that the daemon is busy with is still the first. *)
InFlight == pc \notin {"down", "idle"} => calls # << >> /\ Head(calls).kind \in Changes

Typed ==
  /\ TypeOK
  /\ tasks \in Seq(TaskType) /\ calls \in TaskType /\ mailbox \in Seq(MessageType)
  /\ Loaded /\ InFlight

(* What is left of a task when its first call is done. *)
LEMMA RestOfTask ==
  ASSUME NEW q \in TaskType, q # << >>
  PROVE  /\ Head(q) \in CallType /\ Tail(q) \in TaskType
         /\ Head(q).kind \in ChangesProfiles => Includes(Tail(q), "list")
         /\ Head(q).kind \in ChangesAssignments => Includes(Tail(q), "assignments")
         /\ ~ Includes(Tail(q), "detail")
         /\ \A k : Includes(q, k) <=> Head(q).kind = k \/ Includes(Tail(q), k)
<1> DEFINE r == Tail(q)
<1>1. q \in Seq(CallType) /\ ReadsAgain(q) /\ (Includes(q, "detail") => Len(q) = 1)
  BY DEF TaskType
<1>2. /\ r \in Seq(CallType) /\ Head(q) \in CallType /\ Head(q) = q[1]
      /\ Len(q) \in Nat /\ Len(r) = Len(q) - 1 /\ 1 \in 1 .. Len(q)
      /\ \A i \in 1 .. Len(r) : i + 1 \in 1 .. Len(q) /\ r[i] = q[i + 1]
      /\ \A i \in 1 .. Len(q) : i = 1 \/ i - 1 \in 1 .. Len(r)
      /\ \A k : Includes(q, k) <=> Head(q).kind = k \/ Includes(r, k)
  BY <1>1, Rest
<1> HIDE DEF r
<1>3. ASSUME NEW i \in 1 .. Len(q), i # 1
      PROVE  i - 1 \in 1 .. Len(r) /\ r[i - 1] = q[i]
  <2>1. i - 1 \in 1 .. Len(r) /\ (i - 1) + 1 = i BY <1>2, <1>3
  <2>q. QED BY <1>2, <2>1
<1>4. ~ Includes(r, "detail")
  <2>1. Len(r) = 0 => 1 .. Len(r) = {} OBVIOUS
  <2>2. Includes(r, "detail") => Len(r) = 0 BY <1>1, <1>2
  <2>q. QED BY <2>1, <2>2 DEF Includes
<1>5. ASSUME NEW i \in 1 .. Len(q), NEW k, NEW j \in 1 .. Len(q), i < j, q[j].kind = k
      PROVE  /\ Includes(r, k)
             /\ i # 1 => \E l \in 1 .. Len(r) : i - 1 < l /\ r[l].kind = k
  <2>1. j # 1 /\ (i # 1 => i - 1 < j - 1) BY <1>2, <1>5
  <2>2. j - 1 \in 1 .. Len(r) /\ r[j - 1].kind = k BY <1>3, <1>5, <2>1
  <2>q. QED BY <2>1, <2>2 DEF Includes
<1>6. ReadsAgain(r)
  <2> SUFFICES ASSUME NEW i \in 1 .. Len(r)
               PROVE  /\ r[i].kind \in ChangesProfiles =>
                           \E j \in 1 .. Len(r) : i < j /\ r[j].kind = "list"
                      /\ r[i].kind \in ChangesAssignments =>
                           \E j \in 1 .. Len(r) : i < j /\ r[j].kind = "assignments"
    BY DEF ReadsAgain
  <2>1. i + 1 \in 1 .. Len(q) /\ r[i] = q[i + 1] /\ i + 1 # 1 /\ (i + 1) - 1 = i
    BY <1>2
  <2>2. r[i].kind \in ChangesProfiles =>
          \E j \in 1 .. Len(q) : i + 1 < j /\ q[j].kind = "list"
    BY <1>1, <2>1 DEF ReadsAgain
  <2>3. r[i].kind \in ChangesAssignments =>
          \E j \in 1 .. Len(q) : i + 1 < j /\ q[j].kind = "assignments"
    BY <1>1, <2>1 DEF ReadsAgain
  <2>4. ASSUME NEW k, NEW j \in 1 .. Len(q), i + 1 < j, q[j].kind = k
        PROVE  \E l \in 1 .. Len(r) : i < l /\ r[l].kind = k
    BY <1>5, <2>1, <2>4
  <2>q. QED BY <2>2, <2>3, <2>4
<1>7. /\ Head(q).kind \in ChangesProfiles => Includes(r, "list")
      /\ Head(q).kind \in ChangesAssignments => Includes(r, "assignments")
  BY <1>1, <1>2, <1>5 DEF ReadsAgain
<1>8. r \in TaskType BY <1>2, <1>4, <1>6 DEF TaskType
<1>q. QED BY <1>2, <1>4, <1>7, <1>8 DEF r

LEMMA TwoCalls ==
  ASSUME NEW a, NEW b
  PROVE  <<a>> \o <<b>> = <<a, b>>
<1> DEFINE S == {a, b}
           q == <<a>>
           r == <<b>>
           t == <<a, b>>
<1>1. /\ q \in Seq(S) /\ Len(q) = 1 /\ q[1] = a
      /\ r \in Seq(S) /\ Len(r) = 1 /\ r[1] = b
      /\ t \in Seq(S) /\ Len(t) = 2 /\ t[1] = a /\ t[2] = b
  OBVIOUS
<1> HIDE DEF q, r, t, S
<1>2. /\ q \o r \in Seq(S) /\ Len(q \o r) = 1 + 1
      /\ \A i \in 1 .. 1 + 1 : (q \o r)[i] = IF i <= 1 THEN q[i] ELSE r[i - 1]
  BY <1>1, ConcatProperties
<1>3. (q \o r)[1] = a /\ (q \o r)[2] = b BY <1>1, <1>2
<1>4. \A i \in 1 .. 2 : i = 1 \/ i = 2 OBVIOUS
<1>5. \A i \in 1 .. Len(q \o r) : (q \o r)[i] = t[i] BY <1>1, <1>2, <1>3, <1>4
<1>6. Len(q \o r) = Len(t) BY <1>1, <1>2
<1>q. QED BY <1>1, <1>2, <1>5, <1>6, SeqEqual DEF q, r, t

LEMMA ThreeCalls ==
  ASSUME NEW a, NEW b, NEW c
  PROVE  <<a>> \o <<b>> \o <<c>> = <<a, b, c>>
<1> DEFINE S == {a, b, c}
           q == <<a, b>>
           r == <<c>>
           t == <<a, b, c>>
<1>1. /\ q \in Seq(S) /\ Len(q) = 2 /\ q[1] = a /\ q[2] = b
      /\ r \in Seq(S) /\ Len(r) = 1 /\ r[1] = c
      /\ t \in Seq(S) /\ Len(t) = 3 /\ t[1] = a /\ t[2] = b /\ t[3] = c
  OBVIOUS
<1>7. <<a>> \o <<b>> = q BY TwoCalls
<1> HIDE DEF q, r, t, S
<1>2. /\ q \o r \in Seq(S) /\ Len(q \o r) = 3
      /\ \A i \in 1 .. 3 : (q \o r)[i] = IF i <= 2 THEN q[i] ELSE r[i - 2]
  <2>1. /\ q \o r \in Seq(S) /\ Len(q \o r) = Len(q) + Len(r)
        /\ \A i \in 1 .. Len(q) + Len(r) :
             (q \o r)[i] = IF i <= Len(q) THEN q[i] ELSE r[i - Len(q)]
    BY <1>1, ConcatProperties
  <2>2. Len(q) + Len(r) = 3 BY <1>1
  <2>q. QED BY <1>1, <2>1, <2>2
<1>3. (q \o r)[1] = a /\ (q \o r)[2] = b /\ (q \o r)[3] = c BY <1>1, <1>2
<1>4. \A i \in 1 .. 3 : i = 1 \/ i = 2 \/ i = 3 OBVIOUS
<1>5. \A i \in 1 .. Len(q \o r) : (q \o r)[i] = t[i] BY <1>1, <1>2, <1>3, <1>4
<1>6. Len(q \o r) = Len(t) BY <1>1, <1>2
<1>8. q \o r = t BY <1>1, <1>2, <1>5, <1>6, SeqEqual
<1>q. QED BY <1>7, <1>8 DEF r, t

(* The tasks that keys spawn. *)
LEMMA Commands ==
  /\ FetchProfiles \in TaskType /\ ~ Includes(FetchProfiles, "detail")
  /\ Includes(FetchProfiles, "list")
  /\ FetchAssignments \in TaskType /\ ~ Includes(FetchAssignments, "detail")
  /\ Includes(FetchAssignments, "assignments")
  /\ \A id \in Ids :
       /\ FetchProfileDetail(id) \in TaskType
       /\ Len(FetchProfileDetail(id)) = 1 /\ FetchProfileDetail(id)[1] = Call("detail", id)
       /\ CopyProfile(id) \in TaskType /\ ~ Includes(CopyProfile(id), "detail")
       /\ DeleteProfile(id) \in TaskType /\ ~ Includes(DeleteProfile(id), "detail")
       /\ \A s \in PowerStates : /\ SetActiveProfile(id, s) \in TaskType
                                 /\ ~ Includes(SetActiveProfile(id, s), "detail")
       /\ \A p \in Store!Profile : /\ SaveProfile(id, p) \in TaskType
                                   /\ ~ Includes(SaveProfile(id, p), "detail")
<1>1. ASSUME NEW a \in CallType, a.kind \notin Changes
      PROVE  /\ <<a>> \in TaskType
             /\ \A k : Includes(<<a>>, k) <=> a.kind = k
  BY <1>1 DEF TaskType, ReadsAgain, Includes, Changes
<1>2. ASSUME NEW a \in CallType, NEW b \in CallType, a.kind # "detail", b.kind \notin Changes,
             b.kind # "detail", a.kind \in ChangesProfiles => b.kind = "list",
             a.kind \in ChangesAssignments => b.kind = "assignments"
      PROVE  <<a, b>> \in TaskType /\ ~ Includes(<<a, b>>, "detail")
  BY <1>2 DEF TaskType, ReadsAgain, Includes, Changes
<1>3. /\ Call("list", None) \in CallType /\ Call("list", None).kind = "list"
      /\ Call("assignments", None) \in CallType
      /\ Call("assignments", None).kind = "assignments"
  BY DEF Call, CallType
<1>4. /\ FetchProfiles \in TaskType /\ ~ Includes(FetchProfiles, "detail")
      /\ Includes(FetchProfiles, "list")
      /\ FetchAssignments \in TaskType /\ ~ Includes(FetchAssignments, "detail")
      /\ Includes(FetchAssignments, "assignments")
  BY <1>1, <1>3 DEF FetchProfiles, FetchAssignments, Changes, ChangesProfiles, ChangesAssignments
<1>5. ASSUME NEW id \in Ids
      PROVE  /\ FetchProfileDetail(id) \in TaskType
             /\ Len(FetchProfileDetail(id)) = 1 /\ FetchProfileDetail(id)[1] = Call("detail", id)
             /\ CopyProfile(id) \in TaskType /\ ~ Includes(CopyProfile(id), "detail")
             /\ DeleteProfile(id) \in TaskType /\ ~ Includes(DeleteProfile(id), "detail")
             /\ \A s \in PowerStates : /\ SetActiveProfile(id, s) \in TaskType
                                       /\ ~ Includes(SetActiveProfile(id, s), "detail")
             /\ \A p \in Store!Profile : /\ SaveProfile(id, p) \in TaskType
                                         /\ ~ Includes(SaveProfile(id, p), "detail")
  <2>1. /\ Call("detail", id) \in CallType /\ Call("detail", id).kind = "detail"
        /\ Call("copy", id) \in CallType /\ Call("copy", id).kind = "copy"
        /\ Call("delete", id) \in CallType /\ Call("delete", id).kind = "delete"
    BY DEF Call, CallType
  <2>2. FetchProfileDetail(id) \in TaskType
    BY <1>1, <2>1 DEF FetchProfileDetail, Changes, ChangesProfiles, ChangesAssignments
  <2>3. Len(FetchProfileDetail(id)) = 1 /\ FetchProfileDetail(id)[1] = Call("detail", id)
    BY DEF FetchProfileDetail
  <2>4. CopyProfile(id) \in TaskType /\ ~ Includes(CopyProfile(id), "detail")
    <3>1. CopyProfile(id) = <<Call("copy", id), Call("list", None)>>
      BY TwoCalls DEF CopyProfile, FetchProfiles
    <3>q. QED BY <1>2, <1>3, <2>1, <3>1 DEF Changes, ChangesProfiles, ChangesAssignments
  <2>5. DeleteProfile(id) \in TaskType /\ ~ Includes(DeleteProfile(id), "detail")
    <3> DEFINE a == Call("delete", id)
               b == Call("list", None)
               c == Call("assignments", None)
    <3>1. DeleteProfile(id) = <<a, b, c>>
      BY ThreeCalls DEF DeleteProfile, FetchProfiles, FetchAssignments
    <3>2. /\ a \in CallType /\ b \in CallType /\ c \in CallType
          /\ a.kind = "delete" /\ b.kind = "list" /\ c.kind = "assignments"
      BY <1>3, <2>1
    <3> HIDE DEF a, b, c
    <3>3. <<a, b, c>> \in Seq(CallType) BY <3>2
    <3>4. ReadsAgain(<<a, b, c>>)
      BY <3>2 DEF ReadsAgain, Includes, ChangesProfiles, ChangesAssignments
    <3>5. ~ Includes(<<a, b, c>>, "detail") BY <3>2 DEF Includes
    <3>q. QED BY <3>1, <3>3, <3>4, <3>5 DEF TaskType
  <2>6. ASSUME NEW s \in PowerStates
        PROVE  SetActiveProfile(id, s) \in TaskType /\ ~ Includes(SetActiveProfile(id, s), "detail")
    <3> DEFINE a == [kind |-> "assign", id |-> id, state |-> s]
    <3>1. a \in CallType /\ a.kind = "assign" BY DEF CallType
    <3> HIDE DEF a
    <3>2. SetActiveProfile(id, s) = <<a, Call("assignments", None)>>
      BY TwoCalls DEF SetActiveProfile, FetchAssignments, a
    <3>q. QED BY <1>2, <1>3, <3>1, <3>2 DEF Changes, ChangesProfiles, ChangesAssignments
  <2>7. ASSUME NEW p \in Store!Profile
        PROVE  SaveProfile(id, p) \in TaskType /\ ~ Includes(SaveProfile(id, p), "detail")
    <3> DEFINE a == [kind |-> "update", id |-> id, profile |-> p]
    <3>1. a \in CallType /\ a.kind = "update" BY DEF CallType
    <3> HIDE DEF a
    <3>2. SaveProfile(id, p) = <<a, Call("list", None)>>
      BY TwoCalls DEF SaveProfile, FetchProfiles, a
    <3>q. QED BY <1>2, <1>3, <3>1, <3>2 DEF Changes, ChangesProfiles, ChangesAssignments
  <2>q. QED BY <2>2, <2>3, <2>4, <2>5, <2>6, <2>7
<1>q. QED BY <1>4, <1>5

-----------------------------------------------------------------------------
(* What a step does to the tasks *)

InTasks(ts, k) == \E i \in 1 .. Len(ts) : Includes(ts[i], k)

Once(ts, k) ==
  \A i, j \in 1 .. Len(ts) : Includes(ts[i], k) /\ Includes(ts[j], k) => i = j

LEMMA Spawned ==
  ASSUME Typed, NEW new \in Seq(TaskType), Spawn(new)
  PROVE  /\ tasks' \in Seq(TaskType) /\ UNCHANGED <<store, calls, mailbox>>
         /\ \A k : InTasks(tasks', k) <=> InTasks(tasks, k) \/ InTasks(new, k)
         /\ \A i \in 1 .. Len(tasks') :
              \/ \E j \in 1 .. Len(tasks) : tasks'[i] = tasks[j]
              \/ \E j \in 1 .. Len(new) : tasks'[i] = new[j]
         /\ \A k : /\ Once(tasks, k) /\ ~ InTasks(new, k) => Once(tasks', k)
                   /\ ~ InTasks(tasks, k) /\ Len(new) = 1 => Once(tasks', k)
<1>1. tasks \in Seq(TaskType) /\ tasks' = tasks \o new /\ UNCHANGED <<store, calls, mailbox>>
  BY DEF Spawn, Typed
<1>2. /\ tasks' \in Seq(TaskType) /\ Len(tasks) \in Nat
      /\ \A i \in 1 .. Len(tasks') :
           \/ i \in 1 .. Len(tasks) /\ tasks'[i] = tasks[i]
           \/ i - Len(tasks) \in 1 .. Len(new) /\ tasks'[i] = new[i - Len(tasks)]
      /\ \A i \in 1 .. Len(tasks) : i \in 1 .. Len(tasks') /\ tasks'[i] = tasks[i]
      /\ \A i \in 1 .. Len(new) : /\ Len(tasks) + i \in 1 .. Len(tasks')
                                  /\ tasks'[Len(tasks) + i] = new[i]
      /\ \A i, j \in 1 .. Len(tasks') : i - Len(tasks) = j - Len(tasks) => i = j
  BY <1>1, Joined
<1>3. ASSUME NEW k PROVE InTasks(tasks', k) <=> InTasks(tasks, k) \/ InTasks(new, k)
  BY <1>2 DEF InTasks
<1>4. ASSUME NEW k, Once(tasks, k), ~ InTasks(new, k) PROVE Once(tasks', k)
  BY <1>2, <1>4 DEF InTasks, Once
<1>5. ASSUME NEW k, ~ InTasks(tasks, k), Len(new) = 1 PROVE Once(tasks', k)
  <2>1. ASSUME NEW i \in 1 .. Len(tasks'), Includes(tasks'[i], k) PROVE i - Len(tasks) = 1
    <3>1. i - Len(tasks) \in 1 .. Len(new) BY <1>2, <1>5, <2>1 DEF InTasks
    <3>q. QED BY <1>5, <3>1
  <2>q. QED BY <1>2, <2>1 DEF Once
<1>q. QED BY <1>1, <1>2, <1>3, <1>4, <1>5

LEMMA Locked ==
  ASSUME Typed, Lock
  PROVE  /\ tasks' \in Seq(TaskType) /\ calls' \in TaskType
         /\ calls = << >> /\ \E j \in 1 .. Len(tasks) : calls' = tasks[j]
         /\ \A i \in 1 .. Len(tasks') : \E j \in 1 .. Len(tasks) : tasks'[i] = tasks[j]
         /\ \A k : /\ InTasks(tasks', k) \/ Includes(calls', k) <=> InTasks(tasks, k)
                   /\ Once(tasks, k) => Once(tasks', k)
                   /\ Once(tasks, k) /\ Includes(calls', k) => ~ InTasks(tasks', k)
<1>1. tasks \in Seq(TaskType) BY DEF Typed
<1>2. PICK pos \in 1 .. Len(tasks) : calls' = tasks[pos] /\ tasks' = Store!Without(tasks, pos)
  BY DEF Lock
<1> DEFINE at(i) == IF i < pos THEN i ELSE i + 1
<1>3. /\ tasks' \in Seq(TaskType)
      /\ \A i \in 1 .. Len(tasks') :
           at(i) \in 1 .. Len(tasks) /\ at(i) # pos /\ tasks'[i] = tasks[at(i)]
      /\ \A i, j \in 1 .. Len(tasks') : at(i) = at(j) => i = j
      /\ \A i \in 1 .. Len(tasks) : i # pos => \E j \in 1 .. Len(tasks') : tasks'[j] = tasks[i]
  BY <1>1, <1>2, Others
<1> HIDE DEF at
<1>4. ASSUME NEW k
      PROVE  /\ InTasks(tasks', k) \/ Includes(calls', k) <=> InTasks(tasks, k)
             /\ Once(tasks, k) => Once(tasks', k)
             /\ Once(tasks, k) /\ Includes(calls', k) => ~ InTasks(tasks', k)
  <2>1. InTasks(tasks', k) => InTasks(tasks, k) BY <1>3 DEF InTasks
  <2>2. Includes(calls', k) => InTasks(tasks, k) BY <1>2 DEF InTasks
  <2>3. InTasks(tasks, k) => InTasks(tasks', k) \/ Includes(calls', k)
    BY <1>2, <1>3 DEF InTasks
  <2>4. Once(tasks, k) => Once(tasks', k)
    <3> SUFFICES ASSUME Once(tasks, k), NEW i \in 1 .. Len(tasks'), NEW j \in 1 .. Len(tasks'),
                        Includes(tasks'[i], k), Includes(tasks'[j], k)
                 PROVE  i = j
      BY DEF Once
    <3>1. at(i) = at(j) BY <1>3 DEF Once
    <3>q. QED BY <1>3, <3>1
  <2>5. Once(tasks, k) /\ Includes(calls', k) => ~ InTasks(tasks', k)
    BY <1>2, <1>3 DEF InTasks, Once
  <2>q. QED BY <2>1, <2>2, <2>3, <2>4, <2>5
<1>5. calls' \in TaskType BY <1>1, <1>2, ElementOfSeq
<1>6. \A i \in 1 .. Len(tasks') : \E j \in 1 .. Len(tasks) : tasks'[i] = tasks[j]
  BY <1>3
<1>7. calls = << >> /\ \E j \in 1 .. Len(tasks) : calls' = tasks[j] BY <1>2 DEF Lock
<1>q. QED BY <1>3, <1>4, <1>5, <1>6, <1>7

-----------------------------------------------------------------------------
(* Every step keeps the types. *)

LEMMA StoreStays ==
  ASSUME Typed, UNCHANGED <<store, calls>>
  PROVE  Store!TypeOK' /\ Loaded' /\ InFlight'
<1>1. UNCHANGED <<profiles, settings, profilesFile, settingsFile, pc, op, reply>>
  BY DEF store
<1>2. Store!TypeOK' BY <1>1 DEF Typed, TypeOK, Store!TypeOK
<1>3. Loaded' /\ InFlight' BY <1>1 DEF Typed, Loaded, InFlight
<1>q. QED BY <1>2, <1>3

(* The profile of the selected line. *)
LEMMA SelectedId ==
  ASSUME Typed, InList
  PROVE  Selected \in Ids
<1>1. list \in Seq(Store!Profile) /\ selected \in Nat /\ selected < Len(list)
  BY DEF Typed, TypeOK, InList
<1>2. selected + 1 \in 1 .. Len(list) BY <1>1, LenProperties
<1>3. list[selected + 1] \in Store!Profile BY <1>1, <1>2, ElementOfSeq
<1>q. QED BY <1>3 DEF Selected, Store!Profile

LEMMA TaskSeqs ==
  /\ \A q \in TaskType : <<q>> \in Seq(TaskType) /\ Len(<<q>>) = 1 /\ <<q>>[1] = q
  /\ \A q, r \in TaskType : /\ <<q, r>> \in Seq(TaskType) /\ Len(<<q, r>>) = 2
                            /\ <<q, r>>[1] = q /\ <<q, r>>[2] = r
OBVIOUS

(* What the keys spawn. *)
LEMMA KeyTasks ==
  ASSUME Typed
  PROVE  /\ ShowTab => \E new \in Seq(TaskType) :
              /\ Spawn(new) /\ ~ InTasks(new, "detail")
              /\ InTasks(new, "list") /\ InTasks(new, "assignments")
         /\ ListCommand => \E new \in Seq(TaskType) : Spawn(new) /\ ~ InTasks(new, "detail")
         /\ Save => \E new \in Seq(TaskType) : Spawn(new) /\ ~ InTasks(new, "detail")
         /\ Open => \E new \in Seq(TaskType) :
              /\ Spawn(new) /\ Len(new) = 1
              /\ Len(new[1]) = 1 /\ new[1][1] = Call("detail", view')
<1>1. ASSUME NEW q \in TaskType, ~ Includes(q, "detail"), Spawn(<<q>>)
      PROVE  \E new \in Seq(TaskType) : Spawn(new) /\ ~ InTasks(new, "detail")
  <2>1. PICK new \in Seq(TaskType) : new = <<q>> /\ Len(new) = 1 /\ new[1] = q BY TaskSeqs
  <2>2. ~ InTasks(new, "detail") BY <1>1, <2>1 DEF InTasks
  <2>3. Spawn(new) BY <1>1, <2>1
  <2>q. QED BY <2>2, <2>3
<1>2. ASSUME ShowTab
      PROVE  \E new \in Seq(TaskType) : /\ Spawn(new) /\ ~ InTasks(new, "detail")
                                        /\ InTasks(new, "list") /\ InTasks(new, "assignments")
  <2>1. PICK q \in TaskType, r \in TaskType : q = FetchProfiles /\ r = FetchAssignments
    BY Commands
  <2>2. PICK new : new = <<q, r>> OBVIOUS
  <2>3. new \in Seq(TaskType) /\ Len(new) = 2 /\ new[1] = q /\ new[2] = r
    BY <2>2, TaskSeqs
  <2>4. Spawn(new) BY <1>2, <2>1, <2>2 DEF ShowTab
  <2>5. /\ ~ Includes(q, "detail") /\ ~ Includes(r, "detail")
        /\ Includes(q, "list") /\ Includes(r, "assignments")
    BY <2>1, Commands
  <2>6. 1 \in 1 .. Len(new) /\ 2 \in 1 .. Len(new) /\ \A i \in 1 .. Len(new) : i = 1 \/ i = 2
    BY <2>3
  <2>7. /\ ~ InTasks(new, "detail")
        /\ InTasks(new, "list") /\ InTasks(new, "assignments")
    BY <2>3, <2>5, <2>6 DEF InTasks
  <2>q. QED BY <2>3, <2>4, <2>7
<1>3. ASSUME ListCommand
      PROVE  \E new \in Seq(TaskType) : Spawn(new) /\ ~ InTasks(new, "detail")
  <2>1. PICK id \in Ids : id = Selected BY <1>3, SelectedId DEF ListCommand
  <2>2. \/ Spawn(<<CopyProfile(id)>>) \/ Spawn(<<DeleteProfile(id)>>)
        \/ \E s \in PowerStates : Spawn(<<SetActiveProfile(id, s)>>)
    BY <1>3, <2>1 DEF ListCommand
  <2>q. QED BY <1>1, <2>2, Commands
<1>4. ASSUME Save
      PROVE  \E new \in Seq(TaskType) : Spawn(new) /\ ~ InTasks(new, "detail")
  <2>1. view \in Ids /\ form \in Form BY <1>4 DEF Save, Typed, TypeOK
  <2>2. PICK id \in Ids, p \in Store!Profile : id = view /\ p = ApplyProfileForm(form)
    BY <2>1 DEF ApplyProfileForm, Form, Store!Profile
  <2>3. Spawn(<<SaveProfile(id, p)>>) BY <1>4, <2>2 DEF Save
  <2>q. QED BY <1>1, <2>3, Commands
<1>5. ASSUME Open
      PROVE  \E new \in Seq(TaskType) :
               /\ Spawn(new) /\ Len(new) = 1
               /\ Len(new[1]) = 1 /\ new[1][1] = Call("detail", view')
  <2>1. PICK id \in Ids : id = Selected BY <1>5, SelectedId DEF Open
  <2>2. view' = id /\ Spawn(<<FetchProfileDetail(id)>>) BY <1>5, <2>1 DEF Open
  <2>3. PICK q \in TaskType : q = FetchProfileDetail(id) BY Commands
  <2>4. PICK new \in Seq(TaskType) : new = <<q>> /\ Len(new) = 1 /\ new[1] = q BY TaskSeqs
  <2>q. QED BY <2>2, <2>3, <2>4, Commands
<1>q. QED BY <1>2, <1>3, <1>4, <1>5

ScreenOK ==
  /\ list \in Seq(Store!Profile)
  /\ selected \in Nat /\ (selected < Len(list) \/ selected = 0)
  /\ view \in Ids \cup {"list"}
  /\ form \in {None} \cup Form
  /\ unsaved \in BOOLEAN /\ alone \in BOOLEAN
  /\ assigned \in [PowerStates -> Ids] \cup {None}

LEMMA TwoParts == TypeOK <=> Store!TypeOK /\ ScreenOK
BY DEF TypeOK, ScreenOK

(* A key spawns tasks, or leaves the queues as they are. *)
LEMMA KeyQueues ==
  ASSUME Typed, Key
  PROVE  /\ UNCHANGED <<store, calls, mailbox>>
         /\ tasks' \in Seq(TaskType)
<1>1. CASE MoveSelection \/ EditField \/ MoveFocus \/ Close
  BY <1>1 DEF MoveSelection, EditField, MoveFocus, Close, Typed
<1>2. CASE ShowTab \/ ListCommand \/ Save \/ Open
  <2>1. PICK new \in Seq(TaskType) : Spawn(new) BY <1>2, KeyTasks
  <2>q. QED BY <2>1, Spawned
<1>q. QED BY <1>1, <1>2 DEF Key

LEMMA KeyTyped ==
  ASSUME Typed, Key
  PROVE  Typed'
<1>1. /\ UNCHANGED <<store, calls, mailbox>> /\ tasks' \in Seq(TaskType)
  BY KeyQueues
<1>2. Store!TypeOK' /\ Loaded' /\ InFlight' BY <1>1, StoreStays
<1>3. /\ list \in Seq(Store!Profile)
      /\ selected \in Nat /\ (selected < Len(list) \/ selected = 0)
      /\ view \in Ids \cup {"list"}
      /\ form \in {None} \cup Form
      /\ unsaved \in BOOLEAN /\ alone \in BOOLEAN
      /\ assigned \in [PowerStates -> Ids] \cup {None}
  BY DEF Typed, TypeOK
<1>4. Len(list) \in Nat BY <1>3, LenProperties
<1>5. ScreenOK'
  <2>1. CASE ShowTab \/ ListCommand
    <3>1. UNCHANGED <<list, selected, view, form, unsaved, assigned, alone>>
      BY <2>1 DEF ShowTab, ListCommand, screen
    <3>q. QED BY <1>3, <3>1 DEF ScreenOK
  <2>2. CASE MoveSelection
    <3>1. UNCHANGED <<list, view, form, unsaved, assigned, alone>>
      BY <2>2 DEF MoveSelection
    <3>2. /\ selected' \in Nat /\ (selected' < Len(list) \/ selected' = 0)
      BY <1>3, <1>4, <2>2 DEF MoveSelection
    <3>q. QED BY <1>3, <3>1, <3>2 DEF ScreenOK
  <2>3. CASE Open
    <3>1. UNCHANGED <<list, selected, form, assigned>> /\ view' = Selected /\ unsaved' = FALSE
          /\ alone' = (form = None /\ ~ DetailComing) /\ InList
      BY <2>3 DEF Open
    <3>2. view' \in Ids BY <3>1, SelectedId
    <3>q. QED BY <1>3, <3>1, <3>2 DEF ScreenOK
  <2>4. CASE EditField
    <3>1. UNCHANGED <<list, selected, view, assigned, alone>> /\ unsaved' = TRUE /\ form \in Form
      BY <1>3, <2>4 DEF EditField
    <3>2. form' \in Form BY <2>4, <3>1 DEF EditField, Form
    <3>q. QED BY <1>3, <3>1, <3>2 DEF ScreenOK
  <2>5. CASE MoveFocus
    <3>1. UNCHANGED <<list, selected, view, form, assigned, alone>>
          /\ unsaved' = form.changed /\ form \in Form
      BY <1>3, <2>5 DEF MoveFocus
    <3>2. unsaved' \in BOOLEAN BY <3>1 DEF Form
    <3>q. QED BY <1>3, <3>1, <3>2 DEF ScreenOK
  <2>6. CASE Save
    <3>1. UNCHANGED <<list, selected, view, form, assigned, alone>> /\ unsaved' = FALSE
      BY <2>6 DEF Save
    <3>q. QED BY <1>3, <3>1 DEF ScreenOK
  <2>7. CASE Close
    <3>1. UNCHANGED <<list, selected, assigned, alone>> /\ view' = "list" /\ form' = None
          /\ unsaved' = FALSE
      BY <2>7 DEF Close
    <3>q. QED BY <1>3, <3>1 DEF ScreenOK
  <2>q. QED BY <2>1, <2>2, <2>3, <2>4, <2>5, <2>6, <2>7 DEF Key
<1>6. TypeOK' BY <1>2, <1>5, TwoParts, PTL
<1>q. QED BY <1>1, <1>2, <1>6 DEF Typed

(* Behind the screen: the tasks and the daemon. *)
LEMMA ScreenStays ==
  ASSUME Typed, UNCHANGED screen
  PROVE  ScreenOK'
<1>1. UNCHANGED <<list, selected, view, form, unsaved, assigned, alone>> BY DEF screen
<1>q. QED BY <1>1 DEF Typed, TypeOK, ScreenOK

(* What a call of the daemon changes, and what the rest of the task reads. *)
LEMMA Invoked ==
  ASSUME Typed, Invoke
  PROVE  /\ Store!Method /\ pc = "idle" /\ pc' # "down"
         /\ calls # << >> /\ Head(calls).kind \in Changes
         /\ calls' = IF pc' = "idle" THEN Tail(calls) ELSE calls
         /\ profiles' # profiles => Head(calls).kind \in ChangesProfiles
         /\ settings' # settings => Head(calls).kind \in ChangesAssignments
<1>1. calls # << >> /\ calls \in TaskType BY DEF Invoke, Typed
<1>2. PICK c \in CallType : c = Head(calls) BY <1>1, RestOfTask
<1>3. \/ c.kind = "copy" /\ \E new \in NewIds : Store!CopyProfile(c.id, new)
      \/ c.kind = "delete" /\ Store!DeleteProfile(c.id)
      \/ c.kind = "update" /\ Store!UpdateProfile(c.id, c.profile)
      \/ c.kind = "assign" /\ Store!SetActiveProfile(c.id, c.state)
  BY <1>2 DEF Invoke
<1>4. NewIds \subseteq Ids BY EditorAssumption
<1>5. /\ c.kind \in Changes => c.id \in Ids
      /\ c.kind = "update" => c.profile \in Store!Profile
      /\ c.kind = "assign" => c.state \in PowerStates
  BY DEF CallType, Changes, ChangesProfiles, ChangesAssignments
<1>6. CASE c.kind = "copy" /\ \E new \in NewIds : Store!CopyProfile(c.id, new)
  <2>1. PICK new \in NewIds : Store!CopyProfile(c.id, new) BY <1>6
  <2>2. c.id \in Ids /\ new \in Ids BY <1>4, <1>5, <1>6 DEF Changes, ChangesProfiles
  <2>3. Store!Method BY <2>1, <2>2 DEF Store!Method
  <2>4. pc = "idle" /\ UNCHANGED settings /\ (pc' = pc \/ pc' = "open_profiles")
    BY <2>1 DEF Store!CopyProfile, Store!CreateProfile, Store!Refuse, Store!Save
  <2>q. QED BY <1>1, <1>2, <1>6, <2>3, <2>4 DEF Invoke, Changes, ChangesProfiles
<1>7. CASE c.kind = "delete" /\ Store!DeleteProfile(c.id)
  <2>1. Store!Method BY <1>5, <1>7 DEF Store!Method, Changes, ChangesProfiles
  <2>2. pc = "idle" /\ (pc' = pc \/ pc' = "open_profiles")
    BY <1>7 DEF Store!DeleteProfile, Store!Refuse, Store!Save
  <2>q. QED BY <1>1, <1>2, <1>7, <2>1, <2>2 DEF Invoke, Changes, ChangesProfiles, ChangesAssignments
<1>8. CASE c.kind = "update" /\ Store!UpdateProfile(c.id, c.profile)
  <2>1. Store!Method BY <1>5, <1>8 DEF Store!Method, Changes, ChangesProfiles
  <2>2. pc = "idle" /\ UNCHANGED settings /\ (pc' = pc \/ pc' = "open_profiles")
    BY <1>8 DEF Store!UpdateProfile, Store!Refuse, Store!Save
  <2>q. QED BY <1>1, <1>2, <1>8, <2>1, <2>2 DEF Invoke, Changes, ChangesProfiles
<1>9. CASE c.kind = "assign" /\ Store!SetActiveProfile(c.id, c.state)
  <2>1. Store!Method BY <1>5, <1>9 DEF Store!Method, Changes, ChangesAssignments
  <2>2. pc = "idle" /\ UNCHANGED profiles /\ (pc' = pc \/ pc' = "open_settings")
    BY <1>9 DEF Store!SetActiveProfile, Store!Refuse, Store!Save
  <2>q. QED BY <1>1, <1>2, <1>9, <2>1, <2>2 DEF Invoke, Changes, ChangesAssignments
<1>q. QED BY <1>3, <1>6, <1>7, <1>8, <1>9

LEMMA SavedInDaemon ==
  ASSUME Typed, SaveInDaemon
  PROVE  /\ Store!SaveStep /\ UNCHANGED <<profiles, settings>> /\ pc' # "down"
         /\ calls # << >> /\ Head(calls).kind \in Changes
         /\ calls' = IF pc' = "idle" THEN Tail(calls) ELSE calls
<1>1. /\ UNCHANGED <<profiles, settings>> /\ pc \notin {"down", "idle"} /\ pc' # "down"
  BY DEF SaveInDaemon, Store!SaveStep, Store!OpenProfiles, Store!WriteProfiles,
    Store!SaveProfilesFails, Store!OpenSettings, Store!WriteSettings, Store!SaveSettingsFails
<1>q. QED BY <1>1 DEF SaveInDaemon, Typed, InFlight

(* Before the daemon has started, what it starts from is what it has. *)
LEMMA Started ==
  ASSUME Typed, Start
  PROVE  Store!Start /\ pc = "down" /\ pc' = "idle" /\ UNCHANGED <<profiles, settings>>
BY DEF Start, Store!Start, Typed, Loaded

(* What the daemon answers. *)
LEMMA Answered ==
  ASSUME Typed, NEW c \in CallType, c.kind \in {"list", "assignments", "detail"}
  PROVE  \/ Answer(c) = << >> /\ c.kind = "detail"
         \/ \E m \in MessageType :
              /\ Answer(c) = <<m>> /\ m.kind = c.kind
              /\ m.kind = "list" => m.data = profiles
              /\ m.kind = "assignments" => m.data = settings.stateMap
              /\ m.kind = "detail" => m.data.id = c.id
<1>0. Store!TypeOK BY DEF Typed, TypeOK
<1>1. CASE c.kind = "list"
  <2> DEFINE m == [kind |-> "list", data |-> profiles]
  <2>1. Answer(c) = <<m>> BY <1>1 DEF Answer
  <2>2. m \in MessageType BY <1>0 DEF MessageType, Store!TypeOK
  <2>3. m.kind = "list" /\ m.data = profiles OBVIOUS
  <2> HIDE DEF m
  <2>q. QED BY <1>1, <2>1, <2>2, <2>3
<1>2. CASE c.kind = "assignments"
  <2> DEFINE m == [kind |-> "assignments", data |-> settings.stateMap]
  <2>1. Answer(c) = <<m>> BY <1>2 DEF Answer
  <2>2. m \in MessageType BY <1>0 DEF MessageType, Store!TypeOK, Store!Settings
  <2>3. m.kind = "assignments" /\ m.data = settings.stateMap OBVIOUS
  <2> HIDE DEF m
  <2>q. QED BY <1>2, <2>1, <2>2, <2>3
<1>3. CASE c.kind = "detail" /\ Store!Has(profiles, c.id)
  <2> DEFINE p == profiles[Store!First(profiles, c.id)]
             m == [kind |-> "detail", data |-> p]
  <2>1. Answer(c) = <<m>> BY <1>3 DEF Answer
  <2>2. p \in Store!Profile /\ p.id = c.id BY <1>0, <1>3, FirstOfStore
  <2> HIDE DEF p
  <2>3. m \in MessageType BY <2>2 DEF MessageType
  <2>4. m.kind = "detail" /\ m.data.id = c.id BY <2>2
  <2> HIDE DEF m
  <2>q. QED BY <1>3, <2>1, <2>3, <2>4
<1>4. CASE c.kind = "detail" /\ ~ Store!Has(profiles, c.id)
  BY <1>4 DEF Answer
<1>q. QED BY <1>1, <1>2, <1>3, <1>4

LEMMA StoreTyped ==
  ASSUME Typed, Store!Start \/ Store!Method \/ Store!SaveStep
  PROVE  Store!TypeOK'
<1>1. Store!Next BY DEF Store!Next
<1>q. QED BY <1>1, NextStore DEF Typed, TypeOK

LEMMA BehindTyped ==
  ASSUME Typed, Start \/ Lock \/ Invoke \/ SaveInDaemon \/ Query
  PROVE  Typed'
<1>0. UNCHANGED screen BY DEF Start, Lock, Invoke, SaveInDaemon, Query
<1>1. ScreenOK' BY <1>0, ScreenStays
<1>2. tasks \in Seq(TaskType) /\ calls \in TaskType /\ mailbox \in Seq(MessageType)
  BY DEF Typed
<1>3. ASSUME Store!TypeOK', Loaded', InFlight', tasks' \in Seq(TaskType), calls' \in TaskType,
             mailbox' \in Seq(MessageType)
      PROVE  Typed'
  <2>1. TypeOK' BY <1>1, <1>3, TwoParts, PTL
  <2>q. QED BY <1>3, <2>1 DEF Typed
<1>4. CASE Start
  <2>1. Store!TypeOK' /\ pc = "down" /\ pc' = "idle" /\ UNCHANGED <<tasks, calls, mailbox>>
    BY <1>4, Started, StoreTyped DEF Start
  <2>2. Loaded' /\ InFlight' BY <2>1 DEF Loaded, InFlight
  <2>q. QED BY <1>2, <1>3, <2>1, <2>2
<1>5. CASE Lock
  <2>1. UNCHANGED <<store, mailbox>> BY <1>5 DEF Lock
  <2>2. tasks' \in Seq(TaskType) /\ calls' \in TaskType /\ calls = << >> BY <1>5, Locked
  <2>3. UNCHANGED <<profiles, settings, profilesFile, settingsFile, pc, op, reply>>
    BY <2>1 DEF store
  <2>4. Store!TypeOK' BY <2>3 DEF Typed, TypeOK, Store!TypeOK
  <2>5. Loaded' BY <2>3 DEF Typed, Loaded
  <2>6. InFlight' BY <2>2, <2>3 DEF Typed, InFlight
  <2>q. QED BY <1>2, <1>3, <2>1, <2>2, <2>4, <2>5, <2>6
<1>6. CASE Invoke \/ SaveInDaemon
  <2>1. /\ Store!Method \/ Store!SaveStep
        /\ pc' # "down" /\ calls # << >> /\ Head(calls).kind \in Changes
        /\ calls' = IF pc' = "idle" THEN Tail(calls) ELSE calls
        /\ UNCHANGED <<tasks, mailbox>>
    BY <1>6, Invoked, SavedInDaemon DEF Invoke, SaveInDaemon
  <2>2. Store!TypeOK' BY <2>1, StoreTyped
  <2>3. calls' \in TaskType BY <1>2, <2>1, RestOfTask
  <2>4. Loaded' /\ InFlight' BY <2>1 DEF Loaded, InFlight
  <2>q. QED BY <1>2, <1>3, <2>1, <2>2, <2>3, <2>4
<1>7. CASE Query
  <2>1. /\ calls # << >> /\ Head(calls).kind \in {"list", "assignments", "detail"}
        /\ pc = "idle" /\ mailbox' = mailbox \o Answer(Head(calls))
        /\ calls' = Tail(calls) /\ UNCHANGED <<store, tasks>>
    BY <1>7 DEF Query
  <2>2. calls' \in TaskType /\ Head(calls) \in CallType BY <1>2, <2>1, RestOfTask
  <2>3. mailbox' \in Seq(MessageType)
    <3>1. PICK c \in CallType : c = Head(calls) BY <2>2
    <3>2. CASE Answer(c) = << >> BY <1>2, <2>1, <3>1, <3>2, ConcatEmptySeq
    <3>3. ASSUME NEW m \in MessageType, Answer(c) = <<m>> PROVE mailbox' \in Seq(MessageType)
      <4>1. <<m>> \in Seq(MessageType) OBVIOUS
      <4>q. QED BY <1>2, <2>1, <3>1, <3>3, <4>1, ConcatProperties
    <3>q. QED BY <2>1, <3>1, <3>2, <3>3, Answered
  <2>4. UNCHANGED <<profiles, settings, profilesFile, settingsFile, pc, op, reply>>
    BY <2>1 DEF store
  <2>5. Store!TypeOK' BY <2>4 DEF Typed, TypeOK, Store!TypeOK
  <2>6. Loaded' /\ InFlight' BY <2>1, <2>4 DEF Loaded, InFlight
  <2>q. QED BY <1>2, <1>3, <2>1, <2>2, <2>3, <2>5, <2>6
<1>q. QED BY <1>4, <1>5, <1>6, <1>7

LEMMA ReceiveTyped ==
  ASSUME Typed, ReceiveList \/ ReceiveDetail \/ ReceiveAssignments
  PROVE  Typed'
<1>1. mailbox # << >> /\ mailbox' = Tail(mailbox) /\ UNCHANGED <<store, tasks, calls>>
  BY DEF ReceiveList, ReceiveDetail, ReceiveAssignments, Receive
<1>2. mailbox \in Seq(MessageType) BY DEF Typed
<1>3. PICK m \in MessageType : m = Head(mailbox) BY <1>1, <1>2, Rest
<1>4. mailbox' \in Seq(MessageType) BY <1>1, <1>2, Rest
<1>5. /\ list \in Seq(Store!Profile)
      /\ selected \in Nat /\ (selected < Len(list) \/ selected = 0)
      /\ view \in Ids \cup {"list"}
      /\ form \in {None} \cup Form
      /\ unsaved \in BOOLEAN /\ alone \in BOOLEAN
      /\ assigned \in [PowerStates -> Ids] \cup {None}
  BY DEF Typed, TypeOK
<1>6. ScreenOK'
  <2>1. CASE ReceiveList
    <3>1. /\ UNCHANGED <<view, form, unsaved, assigned, alone>> /\ m.kind = "list"
          /\ list' = m.data
          /\ selected' = IF selected < Len(list') THEN selected
                         ELSE IF list' = << >> THEN 0 ELSE Len(list') - 1
      BY <1>3, <2>1 DEF ReceiveList, Receive
    <3>2. list' \in Seq(Store!Profile) BY <3>1 DEF MessageType
    <3>3. Len(list') \in Nat /\ (list' # << >> => Len(list') # 0)
      BY <3>2, EmptySeq, LenProperties
    <3>4. selected' \in Nat /\ (selected' < Len(list') \/ selected' = 0)
      BY <1>5, <3>1, <3>3
    <3>q. QED BY <1>5, <3>1, <3>2, <3>4 DEF ScreenOK
  <2>2. CASE ReceiveDetail
    <3>1. /\ UNCHANGED <<list, selected, view, unsaved, assigned, alone>> /\ m.kind = "detail"
          /\ form' = ParseProfileForm(m.data)
      BY <1>3, <2>2 DEF ReceiveDetail, Receive
    <3>2. m.data \in Store!Profile BY <3>1 DEF MessageType
    <3>3. IsDefaultProfile(view) \in BOOLEAN BY DEF IsDefaultProfile
    <3>4. form' \in Form BY <3>1, <3>2, <3>3 DEF ParseProfileForm, Form, Store!Profile
    <3>q. QED BY <1>5, <3>1, <3>4 DEF ScreenOK
  <2>3. CASE ReceiveAssignments
    <3>1. /\ UNCHANGED <<list, selected, view, form, unsaved, alone>>
          /\ m.kind = "assignments" /\ assigned' = m.data
      BY <1>3, <2>3 DEF ReceiveAssignments, Receive
    <3>2. assigned' \in [PowerStates -> Ids] BY <3>1 DEF MessageType
    <3>q. QED BY <1>5, <3>1, <3>2 DEF ScreenOK
  <2>q. QED BY <2>1, <2>2, <2>3
<1>7. Store!TypeOK' /\ Loaded' /\ InFlight' BY <1>1, StoreStays
<1>8. TypeOK' BY <1>6, <1>7, TwoParts, PTL
<1>q. QED BY <1>1, <1>4, <1>7, <1>8 DEF Typed

LEMMA NextTyped == Typed /\ [Next]_vars => Typed'
<1> SUFFICES ASSUME Typed, [Next]_vars PROVE Typed' OBVIOUS
<1>1. CASE UNCHANGED vars
  <2>1. UNCHANGED <<store, screen, tasks, calls, mailbox>> BY <1>1 DEF vars
  <2>2. Store!TypeOK' /\ Loaded' /\ InFlight' BY <2>1, StoreStays
  <2>3. ScreenOK' BY <2>1, ScreenStays
  <2>4. TypeOK' BY <2>2, <2>3, TwoParts, PTL
  <2>q. QED BY <2>1, <2>2, <2>4 DEF Typed
<1>2. CASE Next BY <1>2, KeyTyped, BehindTyped, ReceiveTyped DEF Next
<1>q. QED BY <1>1, <1>2

LEMMA InitTyped == Init => Typed
<1> SUFFICES ASSUME Init PROVE Typed OBVIOUS
<1>1. /\ Store!Init
      /\ list = << >> /\ selected = 0 /\ assigned = None
      /\ view = "list" /\ form = None /\ unsaved = FALSE
      /\ tasks = << >> /\ calls = << >> /\ mailbox = << >>
      /\ alone = FALSE
  BY DEF Init
<1>2. Store!TypeOK BY <1>1, InitStore
<1>3. ScreenOK
  <2>1. list \in Seq(Store!Profile) /\ selected \in Nat BY <1>1, EmptySeq
  <2>q. QED BY <1>1, <2>1, Zenon DEF ScreenOK
<1>4. TypeOK BY <1>2, <1>3, TwoParts
<1>5. << >> \in TaskType
  <2>1. Len(<< >>) = 0 /\ << >> \in Seq(CallType) BY EmptySeq
  <2>2. 1 .. Len(<< >>) = {} BY <2>1
  <2>q. QED BY <2>1, <2>2 DEF TaskType, ReadsAgain, Includes
<1>6. Loaded
  <2>1. /\ profiles = Store!DefaultProfiles /\ settings = Store!DefaultSettings
        /\ profilesFile.state = "absent" /\ settingsFile.state = "absent"
    BY <1>1 DEF Store!Init
  <2>q. QED BY <2>1 DEF Loaded, Store!LoadProfiles, Store!LoadSettings
<1>7. InFlight BY <1>1 DEF InFlight, Store!Init
<1>q. QED BY <1>1, <1>4, <1>5, <1>6, <1>7, EmptySeq DEF Typed

(* The variables keep their types, the store of the daemon and the selection
   included (TypeOK). *)
THEOREM TypeCorrect == Spec => []TypeOK
<1>1. Typed => TypeOK BY DEF Typed
<1>q. QED BY <1>1, InitTyped, NextTyped, PTL DEF Spec

-----------------------------------------------------------------------------
(* The newest for last.  What the tab shows is what the daemon has, or the last
   message of the channel will make it so, or a task will still read it. *)

Pending(k) == InTasks(tasks, k) \/ Includes(calls, k)

LastIs(ms, k, v) ==
  \E i \in 1 .. Len(ms) :
    /\ ms[i].kind = k /\ ms[i].data = v
    /\ \A j \in 1 .. Len(ms) : i < j => ms[j].kind # k

Current(k) == IF k = "list" THEN profiles ELSE settings.stateMap

ListFresh ==
  \/ Pending("list")
  \/ LastIs(mailbox, "list", Current("list"))
  \/ ~ Includes(mailbox, "list") /\ list \in {<< >>, Current("list")}

(* Nothing has been asked for. *)
Unasked == Quiet /\ list = << >> /\ view = "list"

AssignmentsFresh ==
  \/ Pending("assignments")
  \/ LastIs(mailbox, "assignments", Current("assignments"))
  \/ /\ ~ Includes(mailbox, "assignments")
     /\ assigned = Current("assignments") \/ Unasked

Fresh == ListFresh /\ AssignmentsFresh

(* A message more at the end of the channel. *)
LEMMA OneMore ==
  ASSUME NEW M, NEW ms \in Seq(M), NEW new \in Seq(M), Len(new) = 1
  PROVE  LET ns == ms \o new
             n == Len(ms) IN
         /\ n \in Nat /\ Len(ns) = n + 1
         /\ \A i \in 1 .. n : i \in 1 .. Len(ns) /\ ns[i] = ms[i]
         /\ n + 1 \in 1 .. Len(ns) /\ ns[n + 1] = new[1]
         /\ \A i \in 1 .. Len(ns) :
              (i \in 1 .. n /\ ns[i] = ms[i]) \/ (i = n + 1 /\ ns[i] = new[1])
<1> DEFINE ns == ms \o new
           n == Len(ms)
<1>1. /\ n \in Nat /\ Len(ns) = n + Len(new)
      /\ \A i \in 1 .. n + Len(new) : ns[i] = IF i <= n THEN ms[i] ELSE new[i - n]
  BY ConcatProperties, LenProperties
<1> HIDE DEF ns, n
<1>2. \A i \in 1 .. n : i \in 1 .. Len(ns) /\ ns[i] = ms[i] BY <1>1
<1>3. n + 1 \in 1 .. Len(ns) /\ ns[n + 1] = new[1]
  <2>1. n + 1 \in 1 .. n + Len(new) /\ ~ (n + 1 <= n) /\ (n + 1) - n = 1 BY <1>1
  <2>q. QED BY <1>1, <2>1
<1>4. \A i \in 1 .. Len(ns) :
        (i \in 1 .. n /\ ns[i] = ms[i]) \/ (i = n + 1 /\ ns[i] = new[1])
  BY <1>1
<1>q. QED BY <1>1, <1>2, <1>3, <1>4 DEF ns, n

LEMMA Sent ==
  ASSUME NEW M, NEW ms \in Seq(M), NEW new \in Seq(M), NEW m, NEW k, NEW v,
         Len(new) = 1, new[1] = m
  PROVE  LET ns == ms \o new IN
         /\ m.kind = k /\ m.data = v => LastIs(ns, k, v)
         /\ m.kind # k => /\ LastIs(ms, k, v) => LastIs(ns, k, v)
                          /\ Includes(ns, k) => Includes(ms, k)
<1> DEFINE ns == ms \o new
           n == Len(ms)
<1>1. /\ n \in Nat /\ Len(ns) = n + 1
      /\ \A i \in 1 .. n : i \in 1 .. Len(ns) /\ ns[i] = ms[i]
      /\ n + 1 \in 1 .. Len(ns) /\ ns[n + 1] = m
      /\ \A i \in 1 .. Len(ns) :
           (i \in 1 .. n /\ ns[i] = ms[i]) \/ (i = n + 1 /\ ns[i] = m)
  BY OneMore
<1> HIDE DEF ns, n
<1>2. \A i \in 1 .. Len(ns) : ~ (n + 1 < i) BY <1>1
<1>3. m.kind = k /\ m.data = v => LastIs(ns, k, v) BY <1>1, <1>2 DEF LastIs
<1>4. ASSUME m.kind # k, LastIs(ms, k, v) PROVE LastIs(ns, k, v)
  <2>1. PICK i \in 1 .. n : /\ ms[i].kind = k /\ ms[i].data = v
                            /\ \A j \in 1 .. n : i < j => ms[j].kind # k
    BY <1>4 DEF LastIs, n
  <2>2. i \in 1 .. Len(ns) /\ ns[i] = ms[i] BY <1>1
  <2>3. \A j \in 1 .. Len(ns) : i < j => ns[j].kind # k BY <1>1, <1>4, <2>1
  <2>q. QED BY <2>1, <2>2, <2>3 DEF LastIs
<1>5. m.kind # k /\ Includes(ns, k) => Includes(ms, k) BY <1>1 DEF Includes, n
<1>q. QED BY <1>3, <1>4, <1>5 DEF ns

(* The first message is taken. *)
LEMMA Taken ==
  ASSUME NEW M, NEW ms \in Seq(M), ms # << >>, NEW k, NEW v
  PROVE  /\ Includes(ms, k) <=> Head(ms).kind = k \/ Includes(Tail(ms), k)
         /\ LastIs(ms, k, v) =>
              \/ LastIs(Tail(ms), k, v)
              \/ Head(ms).kind = k /\ Head(ms).data = v /\ ~ Includes(Tail(ms), k)
<1> DEFINE ns == Tail(ms)
<1>1. /\ Head(ms) = ms[1] /\ Len(ms) \in Nat /\ Len(ns) = Len(ms) - 1
      /\ \A i \in 1 .. Len(ns) : i + 1 \in 1 .. Len(ms) /\ ns[i] = ms[i + 1]
      /\ \A i \in 1 .. Len(ms) : i = 1 \/ i - 1 \in 1 .. Len(ns)
      /\ Includes(ms, k) <=> Head(ms).kind = k \/ Includes(ns, k)
  BY Rest
<1> HIDE DEF ns
<1>2. ASSUME LastIs(ms, k, v)
      PROVE  \/ LastIs(ns, k, v)
             \/ ms[1].kind = k /\ ms[1].data = v /\ ~ Includes(ns, k)
  <2>1. PICK i \in 1 .. Len(ms) : /\ ms[i].kind = k /\ ms[i].data = v
                                  /\ \A j \in 1 .. Len(ms) : i < j => ms[j].kind # k
    BY <1>2 DEF LastIs
  <2>2. CASE i = 1
    <3>1. \A j \in 1 .. Len(ns) : 1 < j + 1 BY <1>1
    <3>2. ~ Includes(ns, k) BY <1>1, <2>1, <2>2, <3>1 DEF Includes
    <3>q. QED BY <2>1, <2>2, <3>2
  <2>3. CASE i # 1
    <3>1. i - 1 \in 1 .. Len(ns) /\ (i - 1) + 1 = i BY <1>1, <2>3
    <3>2. ns[i - 1] = ms[i] BY <1>1, <3>1
    <3>3. \A j \in 1 .. Len(ns) : i - 1 < j => i < j + 1 BY <1>1
    <3>4. \A j \in 1 .. Len(ns) : i - 1 < j => ns[j].kind # k BY <1>1, <2>1, <3>3
    <3>q. QED BY <2>1, <3>1, <3>2, <3>4 DEF LastIs
  <2>q. QED BY <2>2, <2>3
<1>q. QED BY <1>1, <1>2 DEF ns

(* The tasks and the daemon: what changes is read again, by the task that has
   changed it. *)
LEMMA BehindFresh ==
  ASSUME Typed, Start \/ Lock \/ Invoke \/ SaveInDaemon \/ Query,
         NEW k \in {"list", "assignments"}
  PROVE  \/ Pending(k)'
         \/ LastIs(mailbox', k, Current(k)')
         \/ /\ Current(k)' = Current(k) /\ ~ Pending(k)
            /\ LastIs(mailbox, k, Current(k)) => LastIs(mailbox', k, Current(k))
            /\ ~ Includes(mailbox, k) => ~ Includes(mailbox', k)
<1>0. calls \in TaskType /\ mailbox \in Seq(MessageType) BY DEF Typed
<1>1. CASE Start
  <2>1. UNCHANGED <<profiles, settings, tasks, calls, mailbox>> BY <1>1, Started DEF Start
  <2>q. QED BY <2>1 DEF Pending, Current
<1>2. CASE Lock
  <2>1. UNCHANGED <<profiles, settings, mailbox>> BY <1>2 DEF Lock, store
  <2>2. Pending(k) => Pending(k)'
    <3>1. InTasks(tasks', k) \/ Includes(calls', k) <=> InTasks(tasks, k) BY <1>2, Locked
    <3>2. calls = << >> BY <1>2, Locked
    <3>3. ~ Includes(calls, k) BY <3>2 DEF Includes
    <3>q. QED BY <3>1, <3>3 DEF Pending
  <2>q. QED BY <2>1, <2>2 DEF Current
<1>3. CASE Invoke \/ SaveInDaemon
  <2>1. /\ calls # << >> /\ Head(calls).kind \in Changes
        /\ calls' = IF pc' = "idle" THEN Tail(calls) ELSE calls
        /\ UNCHANGED <<tasks, mailbox>>
        /\ profiles' # profiles => Head(calls).kind \in ChangesProfiles
        /\ settings' # settings => Head(calls).kind \in ChangesAssignments
    BY <1>3, Invoked, SavedInDaemon DEF Invoke, SaveInDaemon
  <2>2. /\ Head(calls).kind \in ChangesProfiles => Includes(Tail(calls), "list")
        /\ Head(calls).kind \in ChangesAssignments => Includes(Tail(calls), "assignments")
        /\ Includes(calls, k) <=> Head(calls).kind = k \/ Includes(Tail(calls), k)
    BY <1>0, <2>1, RestOfTask
  <2>3. Head(calls).kind # k BY <2>1 DEF Changes, ChangesProfiles, ChangesAssignments
  <2>4. Includes(calls', k) <=> Includes(calls, k) BY <2>1, <2>2, <2>3
  <2>5. Pending(k)' <=> Pending(k) BY <2>1, <2>4 DEF Pending
  <2>6. Current(k)' # Current(k) => Includes(calls, k) BY <2>1, <2>2 DEF Current
  <2>q. QED BY <2>1, <2>5, <2>6 DEF Pending
<1>4. CASE Query
  <2>1. /\ calls # << >> /\ Head(calls).kind \in {"list", "assignments", "detail"}
        /\ mailbox' = mailbox \o Answer(Head(calls))
        /\ calls' = Tail(calls) /\ UNCHANGED <<profiles, settings, tasks>>
    BY <1>4 DEF Query, store
  <2>2. Includes(calls, k) <=> Head(calls).kind = k \/ Includes(Tail(calls), k)
    BY <1>0, <2>1, RestOfTask
  <2>3. PICK c \in CallType : c = Head(calls) BY <1>0, <2>1, RestOfTask
  <2>4. Current(k)' = Current(k) BY <2>1 DEF Current
  <2>5. Pending(k) => Pending(k)' \/ c.kind = k BY <2>1, <2>2, <2>3 DEF Pending
  <2>6. CASE Answer(c) = << >> /\ c.kind = "detail"
    <3>1. mailbox' = mailbox BY <1>0, <2>1, <2>3, <2>6, ConcatEmptySeq
    <3>q. QED BY <2>4, <2>5, <2>6, <3>1
  <2>7. ASSUME NEW m \in MessageType, Answer(c) = <<m>>, m.kind = c.kind,
               m.kind = "list" => m.data = profiles,
               m.kind = "assignments" => m.data = settings.stateMap
        PROVE  \/ Pending(k)'
               \/ LastIs(mailbox', k, Current(k)')
               \/ /\ Current(k)' = Current(k) /\ ~ Pending(k)
                  /\ LastIs(mailbox, k, Current(k)) => LastIs(mailbox', k, Current(k))
                  /\ ~ Includes(mailbox, k) => ~ Includes(mailbox', k)
    <3>1. PICK new \in Seq(MessageType) : /\ mailbox' = mailbox \o new
                                          /\ Len(new) = 1 /\ new[1] = m
      <4>1. mailbox' = mailbox \o <<m>> BY <2>1, <2>3, <2>7
      <4>2. <<m>> \in Seq(MessageType) /\ Len(<<m>>) = 1 /\ <<m>>[1] = m OBVIOUS
      <4>q. QED BY <4>1, <4>2
    <3>2. m.kind = k => m.data = Current(k) BY <2>7 DEF Current
    <3>3. PICK v : v = Current(k) OBVIOUS
    <3>4. /\ m.kind = k /\ m.data = v => LastIs(mailbox', k, v)
          /\ m.kind # k => /\ LastIs(mailbox, k, v) => LastIs(mailbox', k, v)
                           /\ Includes(mailbox', k) => Includes(mailbox, k)
      BY <1>0, <3>1, Sent
    <3>q. QED BY <2>4, <2>5, <2>7, <3>2, <3>3, <3>4
  <2>q. QED BY <2>1, <2>3, <2>6, <2>7, Answered
<1>q. QED BY <1>1, <1>2, <1>3, <1>4


LEMMA NothingAsked ==
  ASSUME Typed, Unasked
  PROVE  /\ ~ InList /\ mailbox = << >>
         /\ \A k : ~ InTasks(tasks, k) /\ ~ Includes(calls, k)
<1>1. tasks = << >> /\ calls = << >> /\ mailbox = << >> /\ list = << >>
  BY DEF Unasked, Quiet
<1>2. Len(tasks) = 0 /\ Len(calls) = 0 /\ Len(list) = 0 BY <1>1
<1>3. selected \in Nat BY DEF Typed, TypeOK
<1>4. ~ InList BY <1>2, <1>3 DEF InList
<1>q. QED BY <1>1, <1>2, <1>4 DEF InTasks, Includes

LEMMA KeyFresh ==
  ASSUME Typed, Fresh, Key
  PROVE  Fresh'
<1>1. UNCHANGED <<profiles, settings, calls, mailbox, list, assigned>>
  <2>1. UNCHANGED <<list, assigned>>
    BY DEF Key, ShowTab, MoveSelection, Open, ListCommand, EditField, MoveFocus, Save, Close,
      screen
  <2>q. QED BY <2>1, KeyQueues DEF store
<1>2. ASSUME NEW k PROVE Pending(k) => Pending(k)'
  <2>1. CASE MoveSelection \/ EditField \/ MoveFocus \/ Close
    <3>1. UNCHANGED <<tasks, calls>>
      BY <2>1 DEF MoveSelection, EditField, MoveFocus, Close
    <3>q. QED BY <3>1 DEF Pending
  <2>2. CASE ShowTab \/ ListCommand \/ Save \/ Open
    <3>1. PICK new \in Seq(TaskType) : Spawn(new) BY <2>2, KeyTasks
    <3>2. InTasks(tasks', k) <=> InTasks(tasks, k) \/ InTasks(new, k) BY <3>1, Spawned
    <3>q. QED BY <1>1, <3>2 DEF Pending
  <2>q. QED BY <2>1, <2>2 DEF Key
<1>3. Unasked => Unasked' \/ Pending("assignments")'
  <2> SUFFICES ASSUME Unasked PROVE Unasked' \/ Pending("assignments")' OBVIOUS
  <2>1. ~ InList /\ view = "list" BY NothingAsked DEF Unasked
  <2>2. CASE MoveSelection
    BY <2>2 DEF MoveSelection, Unasked, Quiet
  <2>3. CASE ShowTab
    <3>1. PICK new \in Seq(TaskType) : Spawn(new) /\ InTasks(new, "assignments")
      BY <2>3, KeyTasks
    <3>2. InTasks(tasks', "assignments") BY <3>1, Spawned
    <3>q. QED BY <3>2 DEF Pending
  <2>q. QED BY <2>1, <2>2, <2>3
       DEF Key, Open, ListCommand, EditField, MoveFocus, Save, Close
<1>4. \A k : Current(k)' = Current(k) BY <1>1 DEF Current
<1>5. ListFresh' BY <1>1, <1>2, <1>4 DEF Fresh, ListFresh
<1>6. AssignmentsFresh' BY <1>1, <1>2, <1>3, <1>4 DEF Fresh, AssignmentsFresh
<1>q. QED BY <1>5, <1>6 DEF Fresh

LEMMA ReceiveFresh ==
  ASSUME Typed, Fresh, ReceiveList \/ ReceiveDetail \/ ReceiveAssignments
  PROVE  Fresh'
<1>1. /\ mailbox # << >> /\ mailbox' = Tail(mailbox)
      /\ UNCHANGED <<profiles, settings, tasks, calls>>
  BY DEF ReceiveList, ReceiveDetail, ReceiveAssignments, Receive, store
<1>2. mailbox \in Seq(MessageType) BY DEF Typed
<1>3. PICK m \in MessageType : m = Head(mailbox) BY <1>1, <1>2, Rest
<1>4. ~ Unasked BY <1>1 DEF Unasked, Quiet
<1>5. \A k : Current(k)' = Current(k) /\ (Pending(k)' <=> Pending(k))
  BY <1>1 DEF Current, Pending
<1>6. ASSUME NEW k
      PROVE  /\ Includes(mailbox, k) <=> m.kind = k \/ Includes(mailbox', k)
             /\ LastIs(mailbox, k, Current(k)) =>
                  \/ LastIs(mailbox', k, Current(k)')
                  \/ m.kind = k /\ m.data = Current(k)' /\ ~ Includes(mailbox', k)
  <2>1. PICK v : v = Current(k) OBVIOUS
  <2>2. /\ Includes(mailbox, k) <=> m.kind = k \/ Includes(mailbox', k)
        /\ LastIs(mailbox, k, v) =>
             \/ LastIs(mailbox', k, v)
             \/ m.kind = k /\ m.data = v /\ ~ Includes(mailbox', k)
    BY <1>1, <1>2, <1>3, Taken
  <2>q. QED BY <1>5, <2>1, <2>2
<1>7. ListFresh'
  <2>1. /\ m.kind = "list" => list' = m.data
        /\ m.kind # "list" => list' = list
    BY <1>3 DEF ReceiveList, ReceiveDetail, ReceiveAssignments, Receive
  <2>q. QED BY <1>5, <1>6, <2>1 DEF Fresh, ListFresh
<1>8. AssignmentsFresh'
  <2>1. /\ m.kind = "assignments" => assigned' = m.data
        /\ m.kind # "assignments" => assigned' = assigned
    BY <1>3 DEF ReceiveList, ReceiveDetail, ReceiveAssignments, Receive
  <2>q. QED BY <1>4, <1>5, <1>6, <2>1 DEF Fresh, AssignmentsFresh
<1>q. QED BY <1>7, <1>8 DEF Fresh

LEMMA NextFresh == Typed /\ Fresh /\ [Next]_vars => Fresh'
<1> SUFFICES ASSUME Typed, Fresh, [Next]_vars PROVE Fresh' OBVIOUS
<1>1. CASE UNCHANGED vars
  <2>1. UNCHANGED <<profiles, settings, list, assigned, view, tasks, calls, mailbox>>
    BY <1>1 DEF vars, store, screen
  <2>q. QED BY <2>1 DEF Fresh, ListFresh, AssignmentsFresh, Pending, LastIs, Current, Unasked,
         Quiet
<1>2. CASE Start \/ Lock \/ Invoke \/ SaveInDaemon \/ Query
  <2>1. UNCHANGED <<list, assigned, view>>
    BY <1>2 DEF Start, Lock, Invoke, SaveInDaemon, Query, screen
  <2>2. ListFresh'
    <3>1. \/ Pending("list")'
          \/ LastIs(mailbox', "list", Current("list")')
          \/ /\ Current("list")' = Current("list") /\ ~ Pending("list")
             /\ LastIs(mailbox, "list", Current("list")) =>
                  LastIs(mailbox', "list", Current("list"))
             /\ ~ Includes(mailbox, "list") => ~ Includes(mailbox', "list")
      BY <1>2, BehindFresh
    <3>q. QED BY <2>1, <3>1 DEF Fresh, ListFresh
  <2>3. AssignmentsFresh'
    <3>1. \/ Pending("assignments")'
          \/ LastIs(mailbox', "assignments", Current("assignments")')
          \/ /\ Current("assignments")' = Current("assignments") /\ ~ Pending("assignments")
             /\ LastIs(mailbox, "assignments", Current("assignments")) =>
                  LastIs(mailbox', "assignments", Current("assignments"))
             /\ ~ Includes(mailbox, "assignments") => ~ Includes(mailbox', "assignments")
      BY <1>2, BehindFresh
    <3>2. Unasked => Unasked'
      <4> SUFFICES ASSUME Unasked PROVE Unasked' OBVIOUS
      <4>1. tasks = << >> /\ calls = << >> BY DEF Unasked, Quiet
      <4>2. ~ Lock
        <5>1. ~ \E i \in 1 .. Len(tasks) : TRUE BY <4>1
        <5>q. QED BY <5>1 DEF Lock
      <4>3. ~ Invoke /\ ~ SaveInDaemon /\ ~ Query BY <4>1, Invoked, SavedInDaemon DEF Query
      <4>q. QED BY <1>2, <2>1, <4>2, <4>3 DEF Start, Unasked, Quiet
    <3>q. QED BY <2>1, <3>1, <3>2 DEF Fresh, AssignmentsFresh
  <2>q. QED BY <2>2, <2>3 DEF Fresh
<1>q. QED BY <1>1, <1>2, KeyFresh, ReceiveFresh DEF Next

LEMMA InitFresh == Init => Fresh
<1> SUFFICES ASSUME Init PROVE Fresh OBVIOUS
<1>1. Quiet /\ list = << >> /\ view = "list" BY DEF Init, Quiet
<1>2. \A k : ~ Includes(mailbox, k) BY <1>1 DEF Quiet, Includes
<1>q. QED BY <1>1, <1>2 DEF Fresh, ListFresh, AssignmentsFresh, Unasked

(* When nothing is on its way any more, the tab shows the profiles and the
   assignments of the daemon (QuietMeansFresh). *)
THEOREM QuietIsFresh == Spec => []QuietMeansFresh
<1>1. ASSUME Fresh PROVE QuietMeansFresh
  <2> SUFFICES ASSUME Quiet, list # << >>
               PROVE  list = profiles /\ assigned = settings.stateMap
    BY DEF QuietMeansFresh
  <2>1. Len(tasks) = 0 /\ Len(calls) = 0 /\ Len(mailbox) = 0 BY DEF Quiet
  <2>2. \A k : ~ Pending(k) BY <2>1 DEF Pending, InTasks, Includes
  <2>3. \A k, v : ~ LastIs(mailbox, k, v) BY <2>1 DEF LastIs
  <2>4. ListFresh /\ AssignmentsFresh /\ ~ Unasked BY <1>1 DEF Fresh, Unasked
  <2>5. list = Current("list") BY <2>2, <2>3, <2>4 DEF ListFresh
  <2>6. assigned = Current("assignments") BY <2>2, <2>3, <2>4 DEF AssignmentsFresh
  <2>q. QED BY <2>5, <2>6 DEF Current
<1>q. QED BY <1>1, InitTyped, NextTyped, InitFresh, NextFresh, PTL DEF Spec


-----------------------------------------------------------------------------
(* The editor.  What is on its way to an editor that was opened alone is one
   answer at the most, it is for the profile of the view, and none is when the
   fields are there. *)

Of(q, v) == \A i \in 1 .. Len(q) : q[i].kind = "detail" => q[i].id = v

OneMessage(ms, v) ==
  \A i \in 1 .. Len(ms) : ms[i].kind = "detail" =>
    /\ ms[i].data.id = v
    /\ \A j \in 1 .. Len(ms) : ms[j].kind = "detail" => i = j

OneAnswer(v) ==
  /\ Once(tasks, "detail") /\ \A i \in 1 .. Len(tasks) : Of(tasks[i], v)
  /\ Of(calls, v)
  /\ OneMessage(mailbox, v)
  /\ InTasks(tasks, "detail") => ~ Includes(calls, "detail") /\ ~ Includes(mailbox, "detail")
  /\ Includes(calls, "detail") => ~ Includes(mailbox, "detail")

FieldsOK ==
  /\ form # None => form.of = view /\ ~ DetailComing /\ (unsaved => form.changed)
  /\ form = None => ~ unsaved

EditorOK == alone /\ view # "list" => OneAnswer(view) /\ FieldsOK

LEMMA Coming ==
  DetailComing <=> \/ InTasks(tasks, "detail") \/ Includes(calls, "detail")
                   \/ Includes(mailbox, "detail")
BY DEF DetailComing, InTasks, Includes

(* No answer is on its way, in one queue or in all. *)
LEMMA NoAnswer ==
  ASSUME NEW v
  PROVE  /\ \A q : ~ Includes(q, "detail") => Of(q, v) /\ OneMessage(q, v)
         /\ \A ts : ~ InTasks(ts, "detail") =>
              Once(ts, "detail") /\ \A i \in 1 .. Len(ts) : Of(ts[i], v)
BY DEF Includes, InTasks, Of, OneMessage, Once

(* Keys that ask for no profile. *)
LEMMA OtherTasks ==
  ASSUME Typed, NEW new \in Seq(TaskType), Spawn(new), ~ InTasks(new, "detail"), NEW v
  PROVE  /\ OneAnswer(v) => OneAnswer(v)'
         /\ DetailComing' => DetailComing
<1>1. /\ UNCHANGED <<calls, mailbox>>
      /\ InTasks(tasks', "detail") <=> InTasks(tasks, "detail")
      /\ Once(tasks, "detail") => Once(tasks', "detail")
      /\ \A i \in 1 .. Len(tasks') :
           \/ \E j \in 1 .. Len(tasks) : tasks'[i] = tasks[j]
           \/ \E j \in 1 .. Len(new) : tasks'[i] = new[j]
  BY Spawned
<1>2. \A j \in 1 .. Len(new) : Of(new[j], v) BY NoAnswer
<1>3. DetailComing' <=> \/ InTasks(tasks', "detail") \/ Includes(calls', "detail")
                        \/ Includes(mailbox', "detail")
  BY DEF DetailComing, InTasks, Includes
<1>q. QED BY <1>1, <1>2, <1>3, Coming DEF OneAnswer

LEMMA OpenEditor ==
  ASSUME Typed, Open
  PROVE  EditorOK'
<1> SUFFICES ASSUME alone' PROVE OneAnswer(view)' /\ FieldsOK' BY DEF EditorOK
<1>1. ~ DetailComing /\ form' = None /\ unsaved' = FALSE
  <2>1. form' = form /\ unsaved' = FALSE /\ alone' = (form = None /\ ~ DetailComing)
    BY DEF Open
  <2>q. QED BY <2>1, Zenon
<1>2. PICK new \in Seq(TaskType) :
        /\ Spawn(new) /\ Len(new) = 1
        /\ Len(new[1]) = 1 /\ new[1][1] = Call("detail", view')
  BY KeyTasks
<1>3. ~ InTasks(tasks, "detail") /\ ~ Includes(calls, "detail") /\ ~ Includes(mailbox, "detail")
  BY <1>1, Coming
<1>4. /\ UNCHANGED <<calls, mailbox>>
      /\ Once(tasks', "detail")
      /\ \A i \in 1 .. Len(tasks') :
           \/ \E j \in 1 .. Len(tasks) : tasks'[i] = tasks[j]
           \/ \E j \in 1 .. Len(new) : tasks'[i] = new[j]
  BY <1>2, <1>3, Spawned
<1>5. Of(new[1], view')
  <2>1. new[1][1].id = view' /\ \A i \in 1 .. Len(new[1]) : i = 1 BY <1>2 DEF Call
  <2>q. QED BY <2>1 DEF Of
<1>6. \A i \in 1 .. Len(tasks') : Of(tasks'[i], view')
  <2>1. \A j \in 1 .. Len(tasks) : Of(tasks[j], view') BY <1>3, NoAnswer
  <2>2. \A j \in 1 .. Len(new) : j = 1 BY <1>2
  <2>q. QED BY <1>4, <1>5, <2>1, <2>2
<1>7. /\ ~ Includes(calls', "detail") /\ ~ Includes(mailbox', "detail") BY <1>3, <1>4
<1>8. Of(calls', view') /\ OneMessage(mailbox', view') BY <1>7, NoAnswer
<1>9. OneAnswer(view)' BY <1>4, <1>6, <1>7, <1>8 DEF OneAnswer
<1>10. FieldsOK' BY <1>1 DEF FieldsOK
<1>q. QED BY <1>9, <1>10

LEMMA KeyEditor ==
  ASSUME Typed, EditorOK, Key
  PROVE  EditorOK'
<1>1. CASE Open BY <1>1, OpenEditor
<1>2. CASE MoveSelection \/ Close
  <2>1. view' = "list" BY <1>2 DEF MoveSelection, Close
  <2>q. QED BY <2>1 DEF EditorOK
<1>3. CASE ListCommand
  <2>1. view = "list" /\ view' = view BY <1>3 DEF ListCommand, InList, screen
  <2>q. QED BY <2>1 DEF EditorOK
<1>4. CASE ShowTab \/ EditField \/ MoveFocus \/ Save
  <2>1. view' = view /\ alone' = alone
    BY <1>4 DEF ShowTab, EditField, MoveFocus, Save, screen
  <2> SUFFICES ASSUME alone, view # "list" PROVE OneAnswer(view)' /\ FieldsOK'
    BY <2>1 DEF EditorOK
  <2>2. OneAnswer(view) /\ FieldsOK BY DEF EditorOK
  <2>3. PICK v : v = view OBVIOUS
  <2>4. (OneAnswer(v) => OneAnswer(v)') /\ (DetailComing' => DetailComing)
    <3>1. CASE EditField \/ MoveFocus
      <4>1. UNCHANGED <<tasks, calls, mailbox>> BY <3>1 DEF EditField, MoveFocus
      <4>q. QED BY <4>1 DEF OneAnswer, DetailComing
    <3>2. CASE ShowTab \/ Save
      <4>1. PICK new \in Seq(TaskType) : Spawn(new) /\ ~ InTasks(new, "detail")
        BY <3>2, KeyTasks
      <4>q. QED BY <4>1, OtherTasks
    <3>q. QED BY <1>4, <3>1, <3>2
  <2>5. OneAnswer(view)' BY <2>1, <2>2, <2>3, <2>4 DEF OneAnswer
  <2>6. FieldsOK'
    <3>1. CASE ShowTab
      <4>1. UNCHANGED <<form, unsaved>> BY <3>1 DEF ShowTab, screen
      <4>q. QED BY <2>1, <2>2, <2>4, <4>1 DEF FieldsOK
    <3>2. CASE EditField
      <4>1. form \in Form BY <3>2 DEF EditField, Typed, TypeOK
      <4>2. /\ unsaved' = TRUE /\ form # None /\ form' # None
            /\ form'.of = form.of /\ form'.changed = TRUE
        BY <3>2, <4>1, EditorAssumption DEF EditField, Form
      <4>q. QED BY <2>1, <2>2, <2>4, <4>2, Zenon DEF FieldsOK
    <3>3. CASE MoveFocus
      <4>1. form # None /\ form' = form /\ unsaved' = form.changed BY <3>3 DEF MoveFocus
      <4>q. QED BY <2>1, <2>2, <2>4, <4>1, Zenon DEF FieldsOK
    <3>4. CASE Save
      <4>1. form' = form /\ unsaved' = FALSE BY <3>4 DEF Save
      <4>q. QED BY <2>1, <2>2, <2>4, <4>1 DEF FieldsOK
    <3>q. QED BY <1>4, <3>1, <3>2, <3>3, <3>4
  <2>q. QED BY <2>5, <2>6
<1>q. QED BY <1>1, <1>2, <1>3, <1>4 DEF Key


LEMMA QueryEditor ==
  ASSUME Typed, Query, NEW v, OneAnswer(v)
  PROVE  OneAnswer(v)' /\ (DetailComing' => DetailComing)
<1>0. calls \in TaskType /\ mailbox \in Seq(MessageType) BY DEF Typed
<1>1. /\ calls # << >> /\ Head(calls).kind \in {"list", "assignments", "detail"}
      /\ mailbox' = mailbox \o Answer(Head(calls))
      /\ calls' = Tail(calls) /\ UNCHANGED tasks
  BY DEF Query
<1>2. PICK c \in CallType : c = Head(calls) BY <1>0, <1>1, RestOfTask
<1>3. ~ Includes(calls', "detail") /\ (c.kind = "detail" => Includes(calls, "detail"))
  BY <1>0, <1>1, <1>2, RestOfTask
<1>4. c.kind = "detail" => c.id = v
  <2>1. calls \in Seq(CallType) BY <1>0 DEF TaskType
  <2>2. 1 \in 1 .. Len(calls) /\ Head(calls) = calls[1] BY <1>1, <2>1, Rest
  <2>q. QED BY <1>2, <2>2 DEF OneAnswer, Of
<1>5. Of(calls', v) BY <1>3, NoAnswer
<1>6. CASE Answer(c) = << >>
  <2>1. mailbox' = mailbox BY <1>0, <1>1, <1>2, <1>6, ConcatEmptySeq
  <2>2. OneAnswer(v)' BY <1>1, <1>3, <1>5, <2>1 DEF OneAnswer
  <2>3. DetailComing' => DetailComing
    <3>1. DetailComing' => InTasks(tasks, "detail") \/ Includes(mailbox, "detail")
      BY <1>1, <1>3, <2>1 DEF DetailComing, InTasks, Includes
    <3>q. QED BY <3>1, Coming
  <2>q. QED BY <2>2, <2>3
<1>7. ASSUME NEW m \in MessageType, Answer(c) = <<m>>, m.kind = c.kind,
             m.kind = "detail" => m.data.id = c.id
      PROVE  OneAnswer(v)' /\ (DetailComing' => DetailComing)
  <2>1. PICK new \in Seq(MessageType) : /\ mailbox' = mailbox \o new
                                        /\ Len(new) = 1 /\ new[1] = m
    <3>1. mailbox' = mailbox \o <<m>> BY <1>1, <1>2, <1>7
    <3>2. <<m>> \in Seq(MessageType) /\ Len(<<m>>) = 1 /\ <<m>>[1] = m OBVIOUS
    <3>q. QED BY <3>1, <3>2
  <2>2. PICK n : n = Len(mailbox) OBVIOUS
  <2>3. /\ n \in Nat
        /\ \A i \in 1 .. Len(mailbox') :
             (i \in 1 .. n /\ mailbox'[i] = mailbox[i]) \/ (i = n + 1 /\ mailbox'[i] = m)
    BY <1>0, <2>1, <2>2, OneMore
  <2>4. CASE m.kind = "detail"
    <3>1. ~ InTasks(tasks, "detail") /\ ~ Includes(mailbox, "detail") /\ DetailComing
      BY <1>3, <1>7, <2>4, Coming DEF OneAnswer
    <3>2. m.data.id = v BY <1>4, <1>7, <2>4
    <3>3. \A i \in 1 .. Len(mailbox') :
            mailbox'[i].kind = "detail" => i = n + 1 /\ mailbox'[i] = m
      BY <2>2, <2>3, <3>1 DEF Includes
    <3>4. OneMessage(mailbox', v) BY <3>2, <3>3 DEF OneMessage
    <3>5. OneAnswer(v)' BY <1>1, <1>3, <1>5, <3>1, <3>4 DEF OneAnswer
    <3>q. QED BY <3>1, <3>5
  <2>5. CASE m.kind # "detail"
    <3>1. \A i \in 1 .. Len(mailbox') :
            mailbox'[i].kind = "detail" => i \in 1 .. n /\ mailbox'[i] = mailbox[i]
      BY <2>3, <2>5
    <3>2. OneMessage(mailbox', v) BY <2>2, <3>1 DEF OneAnswer, OneMessage
    <3>3. Includes(mailbox', "detail") => Includes(mailbox, "detail")
      BY <2>2, <3>1 DEF Includes
    <3>4. OneAnswer(v)' BY <1>1, <1>3, <1>5, <3>2, <3>3 DEF OneAnswer
    <3>5. DetailComing' => InTasks(tasks, "detail") \/ Includes(mailbox', "detail")
      BY <1>1, <1>3 DEF DetailComing, InTasks, Includes
    <3>q. QED BY <3>3, <3>4, <3>5, Coming
  <2>q. QED BY <2>4, <2>5
<1>q. QED BY <1>1, <1>2, <1>6, <1>7, Answered

LEMMA BehindEditor ==
  ASSUME Typed, EditorOK, Start \/ Lock \/ Invoke \/ SaveInDaemon \/ Query
  PROVE  EditorOK'
<1>1. UNCHANGED <<view, form, unsaved, alone>>
  BY DEF Start, Lock, Invoke, SaveInDaemon, Query, screen
<1> SUFFICES ASSUME alone, view # "list" PROVE OneAnswer(view)' /\ FieldsOK'
  BY <1>1 DEF EditorOK
<1>2. OneAnswer(view) /\ FieldsOK BY DEF EditorOK
<1>3. PICK v : v = view OBVIOUS
<1>4. OneAnswer(v) BY <1>2, <1>3
<1>5. OneAnswer(v)' /\ (DetailComing' => DetailComing)
  <2>1. CASE Start
    <3>1. UNCHANGED <<tasks, calls, mailbox>> BY <2>1 DEF Start
    <3>q. QED BY <1>4, <3>1 DEF OneAnswer, DetailComing
  <2>2. CASE Lock
    <3>1. /\ UNCHANGED mailbox
          /\ calls = << >> /\ \E j \in 1 .. Len(tasks) : calls' = tasks[j]
          /\ \A i \in 1 .. Len(tasks') : \E j \in 1 .. Len(tasks) : tasks'[i] = tasks[j]
          /\ InTasks(tasks', "detail") \/ Includes(calls', "detail") <=> InTasks(tasks, "detail")
          /\ Once(tasks, "detail") => Once(tasks', "detail")
          /\ Once(tasks, "detail") /\ Includes(calls', "detail") => ~ InTasks(tasks', "detail")
      BY <2>2, Locked DEF Lock
    <3>2. OneAnswer(v)' BY <1>4, <3>1 DEF OneAnswer
    <3>3. DetailComing' =>
            InTasks(tasks', "detail") \/ Includes(calls', "detail") \/ Includes(mailbox, "detail")
      BY <3>1 DEF DetailComing, InTasks, Includes
    <3>q. QED BY <3>1, <3>2, <3>3, Coming
  <2>3. CASE Invoke \/ SaveInDaemon
    <3>1. /\ calls # << >> /\ UNCHANGED <<tasks, mailbox>>
          /\ calls' = IF pc' = "idle" THEN Tail(calls) ELSE calls
      BY <2>3, Invoked, SavedInDaemon DEF Invoke, SaveInDaemon
    <3>2. calls \in TaskType BY DEF Typed
    <3>3. ~ Includes(Tail(calls), "detail") BY <3>1, <3>2, RestOfTask
    <3>4. Of(Tail(calls), v) BY <3>3, NoAnswer
    <3>5. Of(calls', v) BY <1>4, <3>1, <3>4 DEF OneAnswer
    <3>6. Includes(calls', "detail") => Includes(calls, "detail") BY <3>1, <3>3
    <3>7. OneAnswer(v)' BY <1>4, <3>1, <3>5, <3>6 DEF OneAnswer
    <3>8. DetailComing' =>
            InTasks(tasks, "detail") \/ Includes(calls', "detail") \/ Includes(mailbox, "detail")
      BY <3>1 DEF DetailComing, InTasks, Includes
    <3>q. QED BY <3>6, <3>7, <3>8, Coming
  <2>4. CASE Query BY <1>4, <2>4, QueryEditor
  <2>q. QED BY <2>1, <2>2, <2>3, <2>4
<1>6. OneAnswer(view)' BY <1>1, <1>3, <1>5 DEF OneAnswer
<1>7. FieldsOK' BY <1>1, <1>2, <1>5 DEF FieldsOK
<1>q. QED BY <1>6, <1>7

LEMMA ReceiveEditor ==
  ASSUME Typed, EditorOK, ReceiveList \/ ReceiveDetail \/ ReceiveAssignments
  PROVE  EditorOK'
<1>1. /\ mailbox # << >> /\ mailbox' = Tail(mailbox)
      /\ UNCHANGED <<tasks, calls, view, unsaved, alone>>
  BY DEF ReceiveList, ReceiveDetail, ReceiveAssignments, Receive
<1> SUFFICES ASSUME alone, view # "list" PROVE OneAnswer(view)' /\ FieldsOK'
  BY <1>1 DEF EditorOK
<1>2. OneAnswer(view) /\ FieldsOK BY DEF EditorOK
<1>3. mailbox \in Seq(MessageType) BY DEF Typed
<1>4. PICK m \in MessageType : m = Head(mailbox) BY <1>1, <1>3, Rest
<1>5. PICK n \in Nat :
        /\ n = Len(mailbox) /\ mailbox[1] = m /\ 1 \in 1 .. n
        /\ \A i \in 1 .. Len(mailbox') : i + 1 \in 1 .. n /\ mailbox'[i] = mailbox[i + 1]
        /\ Includes(mailbox, "detail") <=> m.kind = "detail" \/ Includes(mailbox', "detail")
  BY <1>1, <1>3, <1>4, Rest
<1>6. OneMessage(mailbox', view)
  <2>1. \A i, j \in 1 .. Len(mailbox') : i + 1 = j + 1 => i = j OBVIOUS
  <2>2. OneMessage(mailbox, view) BY <1>2 DEF OneAnswer
  <2>q. QED BY <1>5, <2>1, <2>2 DEF OneMessage
<1>7. OneAnswer(view)' BY <1>1, <1>2, <1>5, <1>6 DEF OneAnswer
<1>8. DetailComing' =>
        InTasks(tasks, "detail") \/ Includes(calls, "detail") \/ Includes(mailbox', "detail")
  BY <1>1 DEF DetailComing, InTasks, Includes
<1>9. CASE ReceiveDetail
  <2>1. m.kind = "detail" /\ form' = ParseProfileForm(m.data)
    BY <1>4, <1>9 DEF ReceiveDetail, Receive
  <2>2. DetailComing /\ ~ InTasks(tasks, "detail") /\ ~ Includes(calls, "detail")
    BY <1>2, <1>5, <2>1, Coming DEF OneAnswer
  <2>3. m.data.id = view /\ \A j \in 1 .. n : mailbox[j].kind = "detail" => j = 1
    BY <1>2, <1>5, <2>1 DEF OneAnswer, OneMessage
  <2>4. ~ Includes(mailbox', "detail")
    <3>1. \A i \in 1 .. Len(mailbox') : i + 1 # 1 OBVIOUS
    <3>q. QED BY <1>5, <2>3, <3>1 DEF Includes
  <2>5. ~ DetailComing' BY <1>8, <2>2, <2>4
  <2>6. ~ unsaved BY <1>2, <2>2 DEF FieldsOK
  <2>7. form'.of = view /\ form' # None
    <3>1. m.data \in Store!Profile BY <2>1 DEF MessageType
    <3>2. IsDefaultProfile(view) \in BOOLEAN BY DEF IsDefaultProfile
    <3>3. form' \in Form BY <2>1, <3>1, <3>2 DEF ParseProfileForm, Form, Store!Profile
    <3>q. QED BY <2>1, <2>3, <3>3, EditorAssumption DEF ParseProfileForm
  <2>8. FieldsOK' BY <1>1, <2>5, <2>6, <2>7 DEF FieldsOK
  <2>q. QED BY <1>7, <2>8
<1>10. CASE ReceiveList \/ ReceiveAssignments
  <2>1. form' = form BY <1>10 DEF ReceiveList, ReceiveAssignments
  <2>2. DetailComing' => DetailComing BY <1>5, <1>8, Coming
  <2>3. FieldsOK' BY <1>1, <1>2, <2>1, <2>2 DEF FieldsOK
  <2>q. QED BY <1>7, <2>3
<1>q. QED BY <1>9, <1>10

LEMMA NextEditor == Typed /\ EditorOK /\ [Next]_vars => EditorOK'
<1> SUFFICES ASSUME Typed, EditorOK, [Next]_vars PROVE EditorOK' OBVIOUS
<1>1. CASE UNCHANGED vars
  <2>1. UNCHANGED <<view, form, unsaved, alone, tasks, calls, mailbox>>
    BY <1>1 DEF vars, screen
  <2>q. QED BY <2>1 DEF EditorOK, OneAnswer, FieldsOK, DetailComing
<1>q. QED BY <1>1, KeyEditor, BehindEditor, ReceiveEditor DEF Next

LEMMA InitEditor == Init => EditorOK
BY DEF Init, EditorOK

(* An editor that was opened with nothing of another profile there or on its
   way holds the profile it was opened on (OpenedAloneHoldsItsProfile). *)
THEOREM HoldsItsProfile == Spec => []OpenedAloneHoldsItsProfile
<1>1. EditorOK => OpenedAloneHoldsItsProfile
  BY DEF EditorOK, FieldsOK, OpenedAloneHoldsItsProfile
<1>q. QED BY <1>1, InitTyped, NextTyped, InitEditor, NextEditor, PTL DEF Spec

(* In such an editor no message touches the fields, and what is announced as
   unsaved is in them (EditsKept). *)
THEOREM EditsAreKept == Spec => EditsKept
<1> DEFINE Kept == alone /\ view # "list" /\ form # None /\ view' = view =>
                     /\ form' # form => unsaved' /\ form'.changed
                     /\ unsaved' => form'.changed
<1>1. Typed /\ EditorOK /\ [Next]_vars => [Kept]_vars
  <2> SUFFICES ASSUME Typed, EditorOK, [Next]_vars, alone, view # "list", form # None,
                      view' = view
               PROVE  /\ form' # form => unsaved' /\ form'.changed
                      /\ unsaved' => form'.changed
    OBVIOUS
  <2>1. ~ DetailComing /\ (unsaved => form.changed) BY DEF EditorOK, FieldsOK
  <2>2. ~ ReceiveDetail
    <3>1. ASSUME ReceiveDetail PROVE Includes(mailbox, "detail")
      <4>1. mailbox # << >> /\ mailbox \in Seq(MessageType) /\ Head(mailbox).kind = "detail"
        BY <3>1 DEF ReceiveDetail, Receive, Typed
      <4>q. QED BY <4>1, Rest
    <3>q. QED BY <2>1, <3>1, Coming
  <2>3. ~ Open /\ ~ Close BY DEF Open, Close, InList
  <2>4. alone' = alone
    BY <2>3 DEF Next, Key, ShowTab, MoveSelection, ListCommand, EditField, MoveFocus, Save,
      Start, Lock, Invoke, SaveInDaemon, Query, ReceiveList, ReceiveDetail,
      ReceiveAssignments, screen, vars
  <2>5. EditField \/ form' = form
    BY <2>2, <2>3 DEF Next, Key, ShowTab, MoveSelection, ListCommand, MoveFocus, Save,
      Start, Lock, Invoke, SaveInDaemon, Query, ReceiveList, ReceiveAssignments, screen, vars
  <2>6. CASE EditField
    <3>1. form \in Form BY <2>6 DEF EditField, Typed, TypeOK
    <3>2. unsaved' = TRUE /\ form'.changed = TRUE BY <2>6, <3>1 DEF EditField, Form
    <3>q. QED BY <3>2
  <2>7. CASE form' = form
    <3>1. EditorOK' BY NextEditor
    <3>q. QED BY <2>4, <2>7, <3>1 DEF EditorOK, FieldsOK
  <2>q. QED BY <2>5, <2>6, <2>7
<1>q. QED BY <1>1, InitTyped, NextTyped, InitEditor, NextEditor, PTL DEF Spec, EditsKept


-----------------------------------------------------------------------------
(* The tasks of the tab use the store of the daemon as ProfileStore describes it:
   what its theorems say of the store for any clients, built-in profiles that
   nobody changes among them, they say of the one behind the tab. *)
THEOREM UsesTheStore == Spec => Store!Spec
<1>1. Init => Store!Init BY DEF Init
<1>2. Typed /\ [Next]_vars => [Store!Next]_(Store!vars)
  <2> SUFFICES ASSUME Typed, [Next]_vars PROVE Store!Next \/ UNCHANGED Store!vars OBVIOUS
  <2>1. CASE Start BY <2>1, Started DEF Store!Next
  <2>2. CASE Invoke BY <2>2, Invoked DEF Store!Next
  <2>3. CASE SaveInDaemon BY <2>3 DEF SaveInDaemon, Store!Next
  <2>4. CASE Key \/ Lock \/ Query \/ ReceiveList \/ ReceiveDetail \/ ReceiveAssignments
             \/ UNCHANGED vars
    <3>1. UNCHANGED store
      BY <2>4, KeyQueues DEF Lock, Query, ReceiveList, ReceiveDetail, ReceiveAssignments,
        Receive, vars
    <3>q. QED BY <3>1 DEF store, Store!vars
  <2>q. QED BY <2>1, <2>2, <2>3, <2>4 DEF Next
<1>q. QED BY <1>1, <1>2, InitTyped, NextTyped, PTL DEF Spec, Store!Spec
=============================================================================
