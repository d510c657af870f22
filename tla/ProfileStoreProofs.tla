-------------------------- MODULE ProfileStoreProofs --------------------------
(***************************************************************************)
(* Theorems about ProfileStore, for any ids, bodies, built-in profiles,    *)
(* faults and bound; first what its operators do to sequences of profiles: *)
(* the filter of save_profiles and load, the search by id, and the removal *)
(* of an entry.                                                            *)
(***************************************************************************)
EXTENDS ProfileStore, Integers, SequenceTheorems, WellFoundedInduction, TLAPS

-----------------------------------------------------------------------------
(* Induction.  The induction theorems of the library take a predicate as a
   parameter, which no installed prover can instantiate.  The least element of
   a set of numbers does the same work: it is the smallest counterexample. *)

(* A nonempty set of natural numbers has a least element. *)
LEMMA LeastElement ==
  ASSUME NEW T \in SUBSET Nat, T # {}
  PROVE  \E n \in T : \A m \in T : n <= m
<1> DEFINE R == OpToRel(<, Nat)
<1>1. PICK n \in T : \A m \in T : ~ (<<m, n>> \in R)
  BY NatLessThanWellFounded, WFMin, Zenon
<1>2. \A m \in T : ~ (m < n) BY <1>1 DEF OpToRel
<1>q. QED BY <1>2

-----------------------------------------------------------------------------
(* The filter of save_profiles and load *)

KeepStep(kept, s, n) ==
  IF n = 0 THEN << >>
  ELSE IF IsDefault(s[n].id) THEN kept[n - 1]
  ELSE Append(kept[n - 1], s[n])

Keeps(kept, s, m) == kept = [n \in 0 .. m |-> KeepStep(kept, s, n)]

(* The recursive function exists up to every length. *)
LEMMA KeepsExists ==
  ASSUME NEW s
  PROVE  \A m \in Nat : \E kept : Keeps(kept, s, m)
<1> DEFINE T == {m \in Nat : ~ \E kept : Keeps(kept, s, m)}
<1>1. ASSUME T # {} PROVE FALSE
  <2>1. T \in SUBSET Nat OBVIOUS
  <2>2. PICK m \in T : \A k \in T : m <= k BY <1>1, <2>1, LeastElement
  <2>3. m # 0
    <3>1. Keeps([n \in 0 .. 0 |-> << >>], s, 0) BY DEF Keeps, KeepStep
    <3>q. QED BY <3>1
  <2>4. m - 1 \in Nat /\ m - 1 \notin T BY <2>2, <2>3
  <2>5. PICK kept : Keeps(kept, s, m - 1) BY <2>4
  <2> DEFINE more == [n \in 0 .. m |-> IF n = m THEN KeepStep(kept, s, m) ELSE kept[n]]
  <2>6. ASSUME NEW n \in 0 .. m PROVE more[n] = KeepStep(more, s, n)
    <3>1. CASE n = m
      BY <2>3, <3>1 DEF KeepStep
    <3>2. CASE n # m
      <4>1. n \in 0 .. m - 1 BY <2>4, <3>2
      <4>2. kept[n] = KeepStep(kept, s, n) BY <2>5, <4>1 DEF Keeps
      <4>3. n # 0 => more[n - 1] = kept[n - 1] BY <4>1
      <4>q. QED BY <3>2, <4>2, <4>3 DEF KeepStep
    <3>q. QED BY <3>1, <3>2
  <2>7. Keeps(more, s, m)
    <3>1. more = [n \in 0 .. m |-> more[n]] OBVIOUS
    <3> HIDE DEF more
    <3>q. QED BY <2>6, <3>1 DEF Keeps
  <2>q. QED BY <2>2, <2>7
<1>q. QED BY <1>1

LEMMA CustomsUnfolds ==
  ASSUME NEW s, Len(s) \in Nat
  PROVE  \E kept : Keeps(kept, s, Len(s)) /\ Customs(s) = kept[Len(s)]
<1> DEFINE kept == CHOOSE f : f = [n \in 0 .. Len(s) |->
                     IF n = 0 THEN << >>
                     ELSE IF IsDefault(s[n].id) THEN f[n - 1]
                     ELSE Append(f[n - 1], s[n])]
<1>1. Customs(s) = kept[Len(s)] BY DEF Customs
<1>2. Keeps(kept, s, Len(s)) BY KeepsExists DEF Keeps, KeepStep
<1>q. QED BY <1>1, <1>2

(* What the filter leaves is a sequence of profiles, none of them built in, and
   each taken from the vector; it leaves no duplicate that was not there. *)
LEMMA CustomsProperties ==
  ASSUME NEW s \in Seq(Profile)
  PROVE  /\ Customs(s) \in Seq(Profile)
         /\ \A i \in 1 .. Len(Customs(s)) : ~ IsDefault(Customs(s)[i].id)
         /\ Distinct(s) => Distinct(Customs(s))
<1>1. PICK kept : Keeps(kept, s, Len(s)) /\ Customs(s) = kept[Len(s)]
  BY CustomsUnfolds
<1> DEFINE Good(n) ==
             /\ kept[n] \in Seq(Profile)
             /\ \A i \in 1 .. Len(kept[n]) :
                  /\ ~ IsDefault(kept[n][i].id)
                  /\ \E j \in 1 .. n : kept[n][i] = s[j]
             /\ Distinct(s) => Distinct(kept[n])
           T == {n \in 0 .. Len(s) : ~ Good(n)}
<1>2. ASSUME NEW n \in 0 .. Len(s) PROVE kept[n] = KeepStep(kept, s, n)
  BY <1>1 DEF Keeps
<1>3. Good(0)
  <2>1. 0 \in 0 .. Len(s)
    <3>1. Len(s) \in Nat BY LenProperties
    <3>q. QED BY <3>1
  <2>2. kept[0] = << >> BY <1>2, <2>1 DEF KeepStep
  <2>3. << >> \in Seq(Profile) /\ 1 .. Len(<< >>) = {} OBVIOUS
  <2>q. QED BY <2>2, <2>3 DEF Distinct
<1>4. ASSUME NEW n \in 1 .. Len(s), Good(n - 1) PROVE Good(n)
  <2>1. s[n] \in Profile BY ElementOfSeq
  <2>n. n \in 0 .. Len(s) /\ n # 0 OBVIOUS
  <2>2. CASE IsDefault(s[n].id)
    <3>1. kept[n] = kept[n - 1] BY <1>2, <2>n, <2>2 DEF KeepStep
    <3>q. QED BY <1>4, <3>1
  <2>3. CASE ~ IsDefault(s[n].id)
    <3> DEFINE k == kept[n - 1]
    <3>1. kept[n] = Append(k, s[n]) BY <1>2, <2>n, <2>3 DEF KeepStep
    <3>2. k \in Seq(Profile) BY <1>4
    <3>3. /\ kept[n] \in Seq(Profile)
          /\ Len(kept[n]) = Len(k) + 1
          /\ \A i \in 1 .. Len(k) : kept[n][i] = k[i]
          /\ kept[n][Len(k) + 1] = s[n]
      <4> HIDE DEF k
      <4>q. QED BY <2>1, <3>1, <3>2, AppendProperties
    <3>4. Len(k) \in Nat BY <3>2, LenProperties
    <3>5. ASSUME NEW i \in 1 .. Len(kept[n])
          PROVE  /\ ~ IsDefault(kept[n][i].id)
                 /\ \E j \in 1 .. n : kept[n][i] = s[j]
      <4>1. CASE i \in 1 .. Len(k)
        BY <1>4, <3>3, <4>1
      <4>2. CASE i = Len(k) + 1
        BY <2>3, <3>3, <4>2
      <4>q. QED BY <3>3, <3>4, <4>1, <4>2
    <3>6. ASSUME Distinct(s) PROVE Distinct(kept[n])
      <4>1. Distinct(k) BY <1>4, <3>6
      <4>2. ASSUME NEW i \in 1 .. Len(k) PROVE k[i].id # s[n].id
        <5>1. PICK j \in 1 .. n - 1 : k[i] = s[j] BY <1>4
        <5>q. QED BY <3>6, <5>1 DEF Distinct
      <4>3. ASSUME NEW i \in 1 .. Len(kept[n]), NEW j \in 1 .. Len(kept[n]),
                   kept[n][i].id = kept[n][j].id
            PROVE  i = j
        <5>1. CASE i \in 1 .. Len(k) /\ j \in 1 .. Len(k)
          BY <3>3, <4>1, <4>3, <5>1 DEF Distinct
        <5>2. CASE i = Len(k) + 1 \/ j = Len(k) + 1
          <6> HIDE DEF k
          <6>1. i \in 1 .. Len(k) + 1 /\ j \in 1 .. Len(k) + 1 BY <3>3
          <6>2. CASE i = Len(k) + 1 /\ j = Len(k) + 1 BY <6>2
          <6>3. CASE i = Len(k) + 1 /\ j \in 1 .. Len(k)
            <7>1. kept[n][i].id = s[n].id BY <3>3, <6>3
            <7>2. kept[n][j] = k[j] BY <3>3, <6>3
            <7>q. QED BY <4>2, <4>3, <6>3, <7>1, <7>2
          <6>4. CASE j = Len(k) + 1 /\ i \in 1 .. Len(k)
            <7>1. kept[n][j].id = s[n].id BY <3>3, <6>4
            <7>2. kept[n][i] = k[i] BY <3>3, <6>4
            <7>q. QED BY <4>2, <4>3, <6>4, <7>1, <7>2
          <6>q. QED BY <3>4, <5>2, <6>1, <6>2, <6>3, <6>4
        <5>q. QED BY <3>3, <3>4, <5>1, <5>2
      <4>q. QED BY <4>3 DEF Distinct
    <3>q. QED BY <3>3, <3>5, <3>6
  <2>q. QED BY <2>2, <2>3
<1>5. T = {}
  <2>1. SUFFICES ASSUME T # {} PROVE FALSE OBVIOUS
  <2>2. T \in SUBSET Nat OBVIOUS
  <2>3. PICK n \in T : \A m \in T : n <= m
    <3> HIDE DEF T
    <3>q. QED BY <2>1, <2>2, LeastElement
  <2>4. n # 0 BY <1>3
  <2>5. n \in 1 .. Len(s) /\ n - 1 \in 0 .. Len(s) /\ n - 1 \notin T
    <3>1. n \in 0 .. Len(s) OBVIOUS
    <3>q. QED BY <2>3, <2>4, <3>1
  <2>6. Good(n - 1) BY <2>5
  <2>q. QED BY <1>4, <2>5, <2>6
<1>6. Good(Len(s))
  <2>1. Len(s) \in Nat BY LenProperties
  <2>q. QED BY <1>5, <2>1
<1>q. QED BY <1>1, <1>6

(* A vector that begins with n built-in profiles and has no other loses
   exactly those n to the filter. *)
LEMMA CustomsAfter ==
  ASSUME NEW s \in Seq(Profile), NEW n \in 0 .. Len(s),
         \A i \in 1 .. n : IsDefault(s[i].id),
         \A i \in n + 1 .. Len(s) : ~ IsDefault(s[i].id)
  PROVE  /\ Len(Customs(s)) = Len(s) - n
         /\ \A i \in 1 .. Len(s) - n : Customs(s)[i] = s[n + i]
<1>l. Len(s) \in Nat BY LenProperties
<1>1. PICK kept : Keeps(kept, s, Len(s)) /\ Customs(s) = kept[Len(s)]
  BY <1>l, CustomsUnfolds
<1> DEFINE Extra(m) == IF m <= n THEN 0 ELSE m - n
           Good(m) == /\ kept[m] \in Seq(Profile)
                      /\ Len(kept[m]) = Extra(m)
                      /\ \A i \in 1 .. Extra(m) : kept[m][i] = s[n + i]
           T == {m \in 0 .. Len(s) : ~ Good(m)}
<1>2. ASSUME NEW m \in 0 .. Len(s) PROVE kept[m] = KeepStep(kept, s, m)
  BY <1>1 DEF Keeps
<1>3. Good(0)
  <2>1. kept[0] = << >> BY <1>2, <1>l DEF KeepStep
  <2>2. << >> \in Seq(Profile) /\ Len(<< >>) = 0 BY EmptySeq
  <2>3. Extra(0) = 0 OBVIOUS
  <2>q. QED BY <2>1, <2>2, <2>3
<1>4. ASSUME NEW m \in 1 .. Len(s), Good(m - 1) PROVE Good(m)
  <2>1. s[m] \in Profile BY ElementOfSeq
  <2>2. m \in 0 .. Len(s) /\ m # 0 /\ m \in Nat /\ n \in Nat BY <1>l
  <2>3. CASE m <= n
    <3>1. IsDefault(s[m].id) BY <2>2, <2>3
    <3>2. kept[m] = kept[m - 1] BY <1>2, <2>2, <3>1 DEF KeepStep
    <3>3. Extra(m) = 0 /\ Extra(m - 1) = 0 BY <2>2, <2>3
    <3>q. QED BY <1>4, <3>2, <3>3
  <2>4. CASE n < m
    <3> DEFINE k == kept[m - 1]
    <3>1. ~ IsDefault(s[m].id) BY <2>2, <2>4, <1>l
    <3>2. kept[m] = Append(k, s[m]) BY <1>2, <2>2, <3>1 DEF KeepStep
    <3>3. k \in Seq(Profile) BY <1>4
    <3>4. Extra(m - 1) = m - 1 - n /\ Extra(m) = m - n BY <2>2, <2>4
    <3>5. Len(k) = m - 1 - n /\ \A i \in 1 .. m - 1 - n : k[i] = s[n + i]
      BY <1>4, <3>4
    <3> HIDE DEF k
    <3>6. /\ kept[m] \in Seq(Profile)
          /\ Len(kept[m]) = m - n
          /\ \A i \in 1 .. Len(k) : kept[m][i] = k[i]
          /\ kept[m][Len(k) + 1] = s[m]
      BY <2>1, <2>2, <3>2, <3>3, <3>5, AppendProperties
    <3>7. ASSUME NEW i \in 1 .. m - n PROVE kept[m][i] = s[n + i]
      <4>1. CASE i = m - n
        <5>1. i = Len(k) + 1 /\ n + i = m BY <2>2, <3>5, <4>1
        <5>q. QED BY <3>6, <5>1
      <4>2. CASE i # m - n
        <5>1. i \in 1 .. m - 1 - n BY <2>2, <4>2
        <5>q. QED BY <3>5, <3>6, <5>1
      <4>q. QED BY <4>1, <4>2
    <3>q. QED BY <3>4, <3>6, <3>7
  <2>q. QED BY <2>2, <2>3, <2>4
<1>5. T = {}
  <2>1. SUFFICES ASSUME T # {} PROVE FALSE OBVIOUS
  <2>2. T \in SUBSET Nat OBVIOUS
  <2>3. PICK m \in T : \A k \in T : m <= k
    <3> HIDE DEF T
    <3>q. QED BY <2>1, <2>2, LeastElement
  <2>4. m # 0
    <3> HIDE DEF Good
    <3>q. QED BY <1>3
  <2>5. m \in 1 .. Len(s) /\ m - 1 \in 0 .. Len(s) /\ m - 1 \notin T
    <3>1. m \in 0 .. Len(s) OBVIOUS
    <3>q. QED BY <2>3, <2>4, <3>1
  <2> HIDE DEF Good
  <2>6. Good(m - 1) BY <2>5
  <2>q. QED BY <1>4, <2>5, <2>6
<1>6. Good(Len(s))
  <2> HIDE DEF Good
  <2>q. QED BY <1>5, <1>l
<1>7. Extra(Len(s)) = Len(s) - n BY <1>l
<1>q. QED BY <1>1, <1>6, <1>7

(* Without a built-in profile in it, the filter leaves a vector alone. *)
LEMMA CustomsOfCustoms ==
  ASSUME NEW c \in Seq(Profile), \A i \in 1 .. Len(c) : ~ IsDefault(c[i].id)
  PROVE  Customs(c) = c
<1>1. Len(c) \in Nat BY LenProperties
<1>2. /\ Len(Customs(c)) = Len(c)
      /\ \A i \in 1 .. Len(c) : Customs(c)[i] = c[i]
  <2>1. 0 \in 0 .. Len(c) BY <1>1
  <2>2. \A i \in 1 .. 0 : IsDefault(c[i].id) OBVIOUS
  <2>3. \A i \in 0 + 1 .. Len(c) : ~ IsDefault(c[i].id) OBVIOUS
  <2>4. /\ Len(Customs(c)) = Len(c) - 0
        /\ \A i \in 1 .. Len(c) - 0 : Customs(c)[i] = c[0 + i]
    BY <2>1, <2>2, <2>3, CustomsAfter
  <2>q. QED BY <1>1, <2>4
<1>3. Customs(c) \in Seq(Profile) BY CustomsProperties
<1>q. QED BY <1>2, <1>3, SeqEqual

-----------------------------------------------------------------------------
(* The built-in profiles *)

LEMMA DefaultsProperties ==
  /\ Len(DefaultIds) \in Nat
  /\ DefaultProfiles \in Seq(Profile)
  /\ Len(DefaultProfiles) = Len(DefaultIds)
  /\ \A i \in 1 .. Len(DefaultIds) : /\ IsDefault(DefaultIds[i])
                                     /\ DefaultProfiles[i].id = DefaultIds[i]
  /\ Distinct(DefaultProfiles)
<1>1. Len(DefaultIds) \in Nat BY StoreAssumption, LenProperties
<1>2. \A i \in 1 .. Len(DefaultIds) : DefaultIds[i] \in Ids
  BY StoreAssumption, ElementOfSeq
<1>3. DefaultProfiles \in [1 .. Len(DefaultIds) -> Profile]
  BY <1>2, StoreAssumption DEF DefaultProfiles, Profile
<1>4. DefaultProfiles \in Seq(Profile) BY <1>1, <1>3
<1>5. Len(DefaultProfiles) = Len(DefaultIds) BY <1>1 DEF DefaultProfiles
<1>6. \A i \in 1 .. Len(DefaultIds) : DefaultProfiles[i].id = DefaultIds[i]
  BY DEF DefaultProfiles
<1>7. Distinct(DefaultProfiles)
  BY <1>5, <1>6, StoreAssumption DEF Distinct
<1>q. QED BY <1>1, <1>4, <1>5, <1>6, <1>7 DEF IsDefault

(* A vector as load builds it: the built-ins, then profiles that are not. *)
WellFormed(s) ==
  /\ Len(DefaultIds) <= Len(s)
  /\ \A i \in 1 .. Len(DefaultIds) : s[i] = DefaultProfiles[i]
  /\ \A i \in Len(DefaultIds) + 1 .. Len(s) : ~ IsDefault(s[i].id)

(* Saving and loading brings back such a vector as it was. *)
LEMMA SavedAndLoaded ==
  ASSUME NEW s \in Seq(Profile), WellFormed(s)
  PROVE  LoadProfiles(Valid(Customs(s))) = s
<1> DEFINE n == Len(DefaultIds)
           c == Customs(s)
<1>1. n \in Nat /\ Len(s) \in Nat /\ n <= Len(s)
  BY DefaultsProperties, LenProperties DEF WellFormed
<1>2. c \in Seq(Profile) /\ \A i \in 1 .. Len(c) : ~ IsDefault(c[i].id)
  BY CustomsProperties
<1>3. Len(c) = Len(s) - n /\ \A i \in 1 .. Len(s) - n : c[i] = s[n + i]
  <2>1. \A i \in 1 .. n : IsDefault(s[i].id)
    BY DefaultsProperties DEF WellFormed
  <2>2. \A i \in n + 1 .. Len(s) : ~ IsDefault(s[i].id)
    BY DEF WellFormed
  <2>3. n \in 0 .. Len(s) BY <1>1
  <2> HIDE DEF n
  <2>q. QED BY <2>1, <2>2, <2>3, CustomsAfter
<1>4. Customs(c) = c
  <2> HIDE DEF c
  <2>q. QED BY <1>2, CustomsOfCustoms
<1>5. LoadProfiles(Valid(c)) = DefaultProfiles \o c
  BY <1>4 DEF LoadProfiles, Valid
<1>6. DefaultProfiles \o c = s
  <2> DEFINE d == DefaultProfiles
             l == d \o c
  <2>1. d \in Seq(Profile) /\ Len(d) = n BY DefaultsProperties
  <2> HIDE DEF d
  <2>2. /\ l \in Seq(Profile)
        /\ Len(l) = n + Len(c)
        /\ \A i \in 1 .. n + Len(c) : l[i] = IF i <= n THEN d[i] ELSE c[i - n]
    <3> HIDE DEF n, c
    <3>1. /\ l \in Seq(Profile)
          /\ Len(l) = Len(d) + Len(c)
          /\ \A i \in 1 .. Len(d) + Len(c) :
               l[i] = IF i <= Len(d) THEN d[i] ELSE c[i - Len(d)]
      BY <1>2, <2>1, ConcatProperties, Zenon
    <3>q. QED BY <2>1, <3>1
  <2> HIDE DEF n, c, l
  <2>3. Len(l) = Len(s) BY <1>1, <1>3, <2>2
  <2>4. ASSUME NEW i \in 1 .. Len(l) PROVE l[i] = s[i]
    <3>1. CASE i <= n
      <4>1. i \in 1 .. n /\ i \in 1 .. n + Len(c) BY <1>1, <1>3, <2>3, <3>1
      <4>2. l[i] = d[i] BY <2>2, <3>1, <4>1
      <4>3. s[i] = d[i] BY <4>1 DEF WellFormed, n, d
      <4>q. QED BY <4>2, <4>3
    <3>2. CASE ~ i <= n
      <4>1. i \in 1 .. n + Len(c) /\ i - n \in 1 .. Len(s) - n /\ n + (i - n) = i
        BY <1>1, <1>3, <2>3, <3>2
      <4>2. l[i] = c[i - n] BY <2>2, <3>2, <4>1
      <4>3. c[i - n] = s[n + (i - n)] BY <1>3, <4>1
      <4>q. QED BY <4>1, <4>2, <4>3
    <3>q. QED BY <3>1, <3>2
  <2>q. QED
    <3>1. l = s BY <2>2, <2>3, <2>4, SeqEqual
    <3>q. QED BY <3>1 DEF l, d
<1>q. QED BY <1>5, <1>6

(* What load builds, from any file, is well formed, and has no duplicate id
   if the file has none. *)
LEMMA LoadedIsWellFormed ==
  ASSUME NEW f \in File(Seq(Profile))
  PROVE  /\ LoadProfiles(f) \in Seq(Profile)
         /\ WellFormed(LoadProfiles(f))
         /\ Distinct(f.data) => Distinct(LoadProfiles(f))
<1> DEFINE n == Len(DefaultIds)
           d == DefaultProfiles
<1>1. n \in Nat /\ d \in Seq(Profile) /\ Len(d) = n /\ Distinct(d)
  BY DefaultsProperties
<1>2. \A i \in 1 .. n : IsDefault(d[i].id) BY DefaultsProperties
<1>3. CASE f.state # "valid"
  <2>1. LoadProfiles(f) = d BY <1>3 DEF LoadProfiles
  <2>q. QED BY <1>1, <2>1 DEF WellFormed
<1>4. CASE f.state = "valid"
  <2> DEFINE c == Customs(f.data)
             l == d \o c
  <2>1. f.data \in Seq(Profile) BY DEF File
  <2>2. /\ c \in Seq(Profile)
        /\ \A i \in 1 .. Len(c) : ~ IsDefault(c[i].id)
        /\ Distinct(f.data) => Distinct(c)
    BY <2>1, CustomsProperties
  <2>3. LoadProfiles(f) = l BY <1>4 DEF LoadProfiles
  <2>4. Len(c) \in Nat BY <2>2, LenProperties
  <2> HIDE DEF c, d
  <2>5. /\ l \in Seq(Profile)
        /\ Len(l) = n + Len(c)
        /\ \A i \in 1 .. n + Len(c) : l[i] = IF i <= n THEN d[i] ELSE c[i - n]
    <3> HIDE DEF n
    <3>1. /\ l \in Seq(Profile)
          /\ Len(l) = Len(d) + Len(c)
          /\ \A i \in 1 .. Len(d) + Len(c) :
               l[i] = IF i <= Len(d) THEN d[i] ELSE c[i - Len(d)]
      BY <1>1, <2>2, ConcatProperties, Zenon
    <3>q. QED BY <1>1, <3>1
  <2> HIDE DEF n, l
  <2>6. ASSUME NEW i \in 1 .. n PROVE l[i] = d[i]
    <3>1. i \in 1 .. n + Len(c) /\ i <= n BY <1>1, <2>4
    <3>q. QED BY <2>5, <3>1
  <2>7. ASSUME NEW i \in n + 1 .. Len(l)
        PROVE  i - n \in 1 .. Len(c) /\ l[i] = c[i - n]
    <3>1. i \in 1 .. n + Len(c) /\ ~ i <= n /\ i - n \in 1 .. Len(c)
      BY <1>1, <2>4, <2>5
    <3>q. QED BY <2>5, <3>1
  <2>8. WellFormed(l)
    <3>1. n <= Len(l) BY <1>1, <2>4, <2>5
    <3>q. QED BY <2>2, <2>6, <2>7, <3>1 DEF WellFormed, n, d
  <2>9. ASSUME Distinct(f.data) PROVE Distinct(l)
    <3>1. ASSUME NEW i \in 1 .. Len(l), NEW j \in 1 .. Len(l), l[i].id = l[j].id
          PROVE  i = j
      <4>0. (i \in 1 .. n \/ i \in n + 1 .. Len(l)) /\ (j \in 1 .. n \/ j \in n + 1 .. Len(l))
        BY <1>1, <2>4, <2>5
      <4>1. CASE i \in 1 .. n /\ j \in 1 .. n
        BY <1>1, <2>6, <3>1, <4>1 DEF Distinct
      <4>2. CASE i \in n + 1 .. Len(l) /\ j \in n + 1 .. Len(l)
        <5>1. i - n \in 1 .. Len(c) /\ j - n \in 1 .. Len(c)
              /\ c[i - n].id = c[j - n].id
          BY <2>7, <3>1, <4>2
        <5>2. i - n = j - n BY <2>2, <2>9, <5>1 DEF Distinct
        <5>q. QED BY <1>1, <2>4, <2>5, <5>2
      <4>3. ASSUME NEW u \in 1 .. n, NEW v \in n + 1 .. Len(l) PROVE l[u].id # l[v].id
        <5>1. IsDefault(l[u].id) BY <1>2, <2>6
        <5>2. ~ IsDefault(l[v].id) BY <2>2, <2>7
        <5>q. QED BY <5>1, <5>2
      <4>q. QED BY <3>1, <4>0, <4>1, <4>2, <4>3
    <3>q. QED BY <3>1 DEF Distinct
  <2>q. QED BY <2>3, <2>5, <2>8, <2>9
<1>q. QED BY <1>3, <1>4

(* The filter takes from a loaded vector what the file held. *)
LEMMA CustomsOfLoaded ==
  ASSUME NEW f \in File(Seq(Profile)),
         \A i \in 1 .. Len(f.data) : ~ IsDefault(f.data[i].id)
  PROVE  Customs(LoadProfiles(f)) = IF f.state = "valid" THEN f.data ELSE << >>
<1> DEFINE n == Len(DefaultIds)
           d == DefaultProfiles
           c == IF f.state = "valid" THEN f.data ELSE << >>
           l == d \o c
<1>1. f.data \in Seq(Profile) BY DEF File
<1>2. c \in Seq(Profile) /\ \A i \in 1 .. Len(c) : ~ IsDefault(c[i].id)
  BY <1>1, EmptySeq
<1>3. n \in Nat /\ d \in Seq(Profile) /\ Len(d) = n
  BY DefaultsProperties
<1>4. LoadProfiles(f) = l
  BY <1>1, <1>3, CustomsOfCustoms, ConcatEmptySeq DEF LoadProfiles
<1>5. Len(c) \in Nat BY <1>2, LenProperties
<1>6. \A i \in 1 .. n : IsDefault(d[i].id) BY DefaultsProperties
<1> HIDE DEF n, c, d
<1>7. /\ l \in Seq(Profile)
      /\ Len(l) = n + Len(c)
      /\ \A i \in 1 .. n + Len(c) : l[i] = IF i <= n THEN d[i] ELSE c[i - n]
  <2>1. /\ l \in Seq(Profile)
        /\ Len(l) = Len(d) + Len(c)
        /\ \A i \in 1 .. Len(d) + Len(c) :
             l[i] = IF i <= Len(d) THEN d[i] ELSE c[i - Len(d)]
    BY <1>2, <1>3, ConcatProperties, Zenon
  <2>q. QED BY <1>3, <2>1
<1> HIDE DEF l
<1>8. \A i \in 1 .. n : IsDefault(l[i].id)
  BY <1>3, <1>5, <1>6, <1>7
<1>9. \A i \in n + 1 .. Len(l) : ~ IsDefault(l[i].id)
  <2> SUFFICES ASSUME NEW i \in n + 1 .. Len(l) PROVE ~ IsDefault(l[i].id)
    OBVIOUS
  <2>1. i \in 1 .. n + Len(c) /\ ~ i <= n /\ i - n \in 1 .. Len(c)
    BY <1>3, <1>5, <1>7
  <2>q. QED BY <1>2, <1>7, <2>1
<1>10. n \in 0 .. Len(l) /\ Len(l) - n = Len(c) BY <1>3, <1>5, <1>7
<1>11. /\ Len(Customs(l)) = Len(l) - n
       /\ \A i \in 1 .. Len(l) - n : Customs(l)[i] = l[n + i]
  BY <1>7, <1>8, <1>9, <1>10, CustomsAfter
<1>12. ASSUME NEW i \in 1 .. Len(c) PROVE Customs(l)[i] = c[i]
  <2>1. /\ n + i \in 1 .. n + Len(c) /\ ~ n + i <= n /\ (n + i) - n = i
        /\ i \in 1 .. Len(l) - n
    BY <1>3, <1>5, <1>10
  <2>q. QED BY <1>7, <1>11, <2>1
<1>13. Customs(l) \in Seq(Profile) BY <1>7, CustomsProperties
<1>14. Customs(l) = c BY <1>2, <1>10, <1>11, <1>12, <1>13, SeqEqual
<1>q. QED BY <1>4, <1>14 DEF c

-----------------------------------------------------------------------------
(* Searching and removing *)

LEMMA FirstProperties ==
  ASSUME NEW s \in Seq(Profile), NEW id, Has(s, id)
  PROVE  /\ First(s, id) \in 1 .. Len(s)
         /\ s[First(s, id)].id = id
<1> DEFINE T == {i \in 1 .. Len(s) : s[i].id = id}
<1>1. T \in SUBSET Nat OBVIOUS
<1>2. T # {} BY DEF Has
<1>3. PICK i \in T : \A j \in T : i <= j
  <2> HIDE DEF T
  <2>q. QED BY <1>1, <1>2, LeastElement
<1>4. \E k \in 1 .. Len(s) :
        s[k].id = id /\ \A j \in 1 .. Len(s) : s[j].id = id => k <= j
  BY <1>3
<1>q. QED BY <1>4 DEF First

LEMMA WithoutProperties ==
  ASSUME NEW s \in Seq(Profile), NEW pos \in 1 .. Len(s)
  PROVE  /\ Without(s, pos) \in Seq(Profile)
         /\ Len(Without(s, pos)) = Len(s) - 1
         /\ \A i \in 1 .. Len(s) - 1 :
              Without(s, pos)[i] = IF i < pos THEN s[i] ELSE s[i + 1]
<1>1. Len(s) \in Nat /\ Len(s) - 1 \in Nat BY LenProperties
<1>2. ASSUME NEW i \in 1 .. Len(s) - 1
      PROVE  s[i] \in Profile /\ s[i + 1] \in Profile
  <2>1. i \in 1 .. Len(s) /\ i + 1 \in 1 .. Len(s) BY <1>1
  <2>q. QED BY <2>1, ElementOfSeq
<1>3. Without(s, pos) \in [1 .. Len(s) - 1 -> Profile] BY <1>2 DEF Without
<1>4. Without(s, pos) \in Seq(Profile) BY <1>1, <1>3
<1>5. Len(Without(s, pos)) = Len(s) - 1 BY <1>1 DEF Without
<1>q. QED BY <1>4, <1>5 DEF Without

-----------------------------------------------------------------------------
(* Types *)

LEMMA InitTypeOK == Init => TypeOK
<1> SUFFICES ASSUME Init PROVE TypeOK OBVIOUS
<1>1. DefaultProfiles \in Seq(Profile) BY DefaultsProperties
<1>2. DefaultSettings \in Settings
  BY StoreAssumption DEF DefaultSettings, Settings
<1>3. << >> \in Seq(Profile) BY EmptySeq
<1>q. QED BY <1>1, <1>2, <1>3 DEF Init, TypeOK, File

LEMMA NextTypeOK == TypeOK /\ [Next]_vars => TypeOK'
<1> SUFFICES ASSUME TypeOK, [Next]_vars PROVE TypeOK' OBVIOUS
<1>d. DefaultSettings \in Settings
  BY StoreAssumption DEF DefaultSettings, Settings
<1>1. CASE Start
  <2>1. profiles' \in Seq(Profile)
    BY <1>1, LoadedIsWellFormed DEF Start, TypeOK
  <2>2. settings' \in Settings
    BY <1>1, <1>d DEF Start, TypeOK, LoadSettings, File
  <2>q. QED BY <1>1, <2>1, <2>2 DEF Start, TypeOK
<1>2. CASE Stop
  BY <1>2, <1>d, DefaultsProperties DEF Stop, TypeOK
<1>3. ASSUME NEW p \in Profile, CreateProfile(p) PROVE TypeOK'
  <2>1. Append(profiles, p) \in Seq(Profile) BY DEF TypeOK
  <2>q. QED BY <1>3, <2>1 DEF CreateProfile, Refuse, Save, TypeOK
<1>4. ASSUME NEW id \in Ids, NEW newId \in Ids, CopyProfile(id, newId)
      PROVE  TypeOK'
  <2>1. CASE Has(profiles, id)
    <3> DEFINE p == [profiles[First(profiles, id)] EXCEPT !.id = newId]
    <3>1. profiles[First(profiles, id)] \in Profile
      BY <2>1, FirstProperties, ElementOfSeq DEF TypeOK
    <3>2. p \in Profile BY <3>1 DEF Profile
    <3>3. CreateProfile(p) BY <1>4, <2>1 DEF CopyProfile
    <3> HIDE DEF p
    <3>q. QED BY <1>3, <3>2, <3>3
  <2>2. CASE ~ Has(profiles, id)
    BY <1>4, <2>2 DEF CopyProfile, Refuse, TypeOK
  <2>q. QED BY <2>1, <2>2
<1>5. ASSUME NEW id \in Ids, NEW p \in Profile, UpdateProfile(id, p)
      PROVE  TypeOK'
  <2>1. CASE Has(profiles, id)
    <3> DEFINE pos == First(profiles, id)
    <3>1. pos \in 1 .. Len(profiles) BY <2>1, FirstProperties DEF TypeOK
    <3> HIDE DEF pos
    <3>2. [profiles EXCEPT ![pos] = p] \in Seq(Profile)
      BY <3>1, ExceptSeq DEF TypeOK
    <3>q. QED BY <1>5, <3>2 DEF UpdateProfile, Refuse, Save, TypeOK, pos
  <2>2. CASE ~ Has(profiles, id)
    BY <1>5, <2>2 DEF UpdateProfile, Refuse, TypeOK
  <2>q. QED BY <2>1, <2>2
<1>6. ASSUME NEW id \in Ids, DeleteProfile(id) PROVE TypeOK'
  <2>1. CASE IsDefault(id) \/ ~ Has(profiles, id)
    BY <1>6, <2>1 DEF DeleteProfile, Refuse, TypeOK
  <2>2. CASE ~ IsDefault(id) /\ Has(profiles, id)
    <3>1. Without(profiles, First(profiles, id)) \in Seq(Profile)
      BY <2>2, FirstProperties, WithoutProperties DEF TypeOK
    <3>2. settings' \in Settings
      <4>1. FallbackId \in Ids BY StoreAssumption
      <4>2. settings \in Settings BY DEF TypeOK
      <4>3. settings' = [settings EXCEPT !.stateMap =
                           [s \in PowerStates |->
                              IF @[s] = id THEN FallbackId ELSE @[s]]]
        BY <1>6, <2>2 DEF DeleteProfile
      <4>q. QED BY <4>1, <4>2, <4>3 DEF Settings
    <3>q. QED BY <1>6, <2>2, <3>1, <3>2 DEF DeleteProfile, Save, TypeOK
  <2>q. QED BY <2>1, <2>2
<1>7. ASSUME NEW id \in Ids, NEW s \in PowerStates, SetActiveProfile(id, s)
      PROVE  TypeOK'
  <2>1. [settings EXCEPT !.stateMap[s] = id] \in Settings
    BY DEF TypeOK, Settings
  <2>q. QED BY <1>7, <2>1 DEF SetActiveProfile, Refuse, Save, TypeOK
<1>8. ASSUME NEW f \in Flags, UpdateSettings(f) PROVE TypeOK'
  BY <1>8 DEF UpdateSettings, Save, Settings, TypeOK
<1>9. CASE SaveStep
  <2>1. << >> \in Seq(Profile) BY EmptySeq
  <2>2. Customs(profiles) \in Seq(Profile)
    BY CustomsProperties DEF TypeOK
  <2>3. CASE OpenProfiles BY <2>1, <2>3 DEF OpenProfiles, TypeOK, File
  <2>4. CASE WriteProfiles
    BY <2>2, <2>4 DEF WriteProfiles, Valid, TypeOK, File
  <2>5. CASE SaveProfilesFails BY <2>5 DEF SaveProfilesFails, TypeOK
  <2>6. CASE OpenSettings BY <1>d, <2>6 DEF OpenSettings, TypeOK, File
  <2>7. CASE WriteSettings BY <2>7 DEF WriteSettings, Valid, TypeOK, File
  <2>8. CASE SaveSettingsFails BY <2>8 DEF SaveSettingsFails, TypeOK
  <2>q. QED BY <1>9, <2>3, <2>4, <2>5, <2>6, <2>7, <2>8 DEF SaveStep
<1>10. CASE UNCHANGED vars BY <1>10 DEF vars, TypeOK
<1>q. QED
  BY <1>1, <1>2, <1>3, <1>4, <1>5, <1>6, <1>7, <1>8, <1>9, <1>10
  DEF Next, Method

(* Every variable keeps its type, whatever clients send and whatever fails:
   in particular every power state keeps an assignment, and the position that
   update and delete find is one of the vector. *)
THEOREM TypeCorrect == Spec => []TypeOK
<1>q. QED BY InitTypeOK, NextTypeOK, PTL DEF Spec

-----------------------------------------------------------------------------
(* How a step changes the vector of profiles *)

LEMMA FirstCustom ==
  ASSUME TypeOK, BuiltInsIntact, NEW id \in Ids,
         ~ IsDefault(id), Has(profiles, id)
  PROVE  First(profiles, id) \in Len(DefaultIds) + 1 .. Len(profiles)
<1> DEFINE pos == First(profiles, id)
<1>1. pos \in 1 .. Len(profiles) /\ profiles[pos].id = id
  BY FirstProperties DEF TypeOK
<1>2. Len(DefaultIds) \in Nat /\ Len(profiles) \in Nat
  BY DefaultsProperties, LenProperties DEF TypeOK
<1> HIDE DEF pos
<1>3. pos \notin 1 .. Len(DefaultIds)
  BY <1>1, DefaultsProperties DEF BuiltInsIntact
<1>4. pos \in Len(DefaultIds) + 1 .. Len(profiles) BY <1>1, <1>2, <1>3
<1>q. QED BY <1>4 DEF pos

Created ==
  \E p \in Profile : ~ Has(profiles, p.id) /\ profiles' = Append(profiles, p)

Replaced ==
  \E pos \in Len(DefaultIds) + 1 .. Len(profiles), p \in Profile :
    /\ profiles' = [profiles EXCEPT ![pos] = p]
    /\ TrustedClients => p.id = profiles[pos].id

Removed ==
  \E pos \in Len(DefaultIds) + 1 .. Len(profiles) :
    profiles' = Without(profiles, pos)

LEMMA ProfilesStep ==
  ASSUME TypeOK, BuiltInsIntact, [Next]_vars
  PROVE  \/ UNCHANGED profiles
         \/ profiles' = DefaultProfiles
         \/ profiles' = LoadProfiles(profilesFile)
         \/ Created
         \/ Replaced
         \/ Removed
<1>1. CASE Start BY <1>1 DEF Start
<1>2. CASE Stop BY <1>2 DEF Stop
<1>3. ASSUME NEW p \in Profile, CreateProfile(p)
      PROVE  UNCHANGED profiles \/ Created
  BY <1>3 DEF CreateProfile, Refuse, Created
<1>4. ASSUME NEW id \in Ids, NEW newId \in Ids, CopyProfile(id, newId)
      PROVE  UNCHANGED profiles \/ Created
  <2>1. CASE Has(profiles, id)
    <3> DEFINE p == [profiles[First(profiles, id)] EXCEPT !.id = newId]
    <3>1. profiles[First(profiles, id)] \in Profile
      BY <2>1, FirstProperties, ElementOfSeq DEF TypeOK
    <3>2. p \in Profile BY <3>1 DEF Profile
    <3>3. CreateProfile(p) BY <1>4, <2>1 DEF CopyProfile
    <3> HIDE DEF p
    <3>q. QED BY <1>3, <3>2, <3>3
  <2>2. CASE ~ Has(profiles, id) BY <1>4, <2>2 DEF CopyProfile, Refuse
  <2>q. QED BY <2>1, <2>2
<1>5. ASSUME NEW id \in Ids, NEW p \in Profile, UpdateProfile(id, p)
      PROVE  UNCHANGED profiles \/ Replaced
  <2>1. CASE ~ IsDefault(id) /\ Has(profiles, id)
    <3> DEFINE pos == First(profiles, id)
    <3>1. pos \in Len(DefaultIds) + 1 .. Len(profiles) BY <2>1, FirstCustom
    <3>2. profiles[pos].id = id BY <2>1, FirstProperties DEF TypeOK
    <3>3. /\ profiles' = [profiles EXCEPT ![pos] = p]
          /\ TrustedClients => p.id = id
      BY <1>5, <2>1 DEF UpdateProfile, Refuse
    <3> HIDE DEF pos
    <3>q. QED BY <3>1, <3>2, <3>3 DEF Replaced
  <2>2. CASE IsDefault(id) \/ ~ Has(profiles, id)
    BY <1>5, <2>2 DEF UpdateProfile, Refuse
  <2>q. QED BY <2>1, <2>2
<1>6. ASSUME NEW id \in Ids, DeleteProfile(id)
      PROVE  UNCHANGED profiles \/ Removed
  <2>1. CASE ~ IsDefault(id) /\ Has(profiles, id)
    BY <1>6, <2>1, FirstCustom DEF DeleteProfile, Removed
  <2>2. CASE IsDefault(id) \/ ~ Has(profiles, id)
    BY <1>6, <2>2 DEF DeleteProfile, Refuse
  <2>q. QED BY <2>1, <2>2
<1>7. ASSUME NEW id \in Ids, NEW s \in PowerStates, SetActiveProfile(id, s)
      PROVE  UNCHANGED profiles
  BY <1>7 DEF SetActiveProfile, Refuse
<1>8. ASSUME NEW f \in Flags, UpdateSettings(f) PROVE UNCHANGED profiles
  BY <1>8 DEF UpdateSettings
<1>9. CASE SaveStep
  BY <1>9 DEF SaveStep, OpenProfiles, WriteProfiles, SaveProfilesFails,
              OpenSettings, WriteSettings, SaveSettingsFails
<1>10. CASE UNCHANGED vars BY <1>10 DEF vars
<1>q. QED
  BY <1>1, <1>2, <1>3, <1>4, <1>5, <1>6, <1>7, <1>8, <1>9, <1>10
  DEF Next, Method

-----------------------------------------------------------------------------
(* The built-in profiles *)

LEMMA InitBuiltInsIntact == Init => BuiltInsIntact
  BY DefaultsProperties DEF Init, BuiltInsIntact

LEMMA NextBuiltInsIntact ==
  TypeOK /\ BuiltInsIntact /\ [Next]_vars => BuiltInsIntact'
<1> SUFFICES ASSUME TypeOK, BuiltInsIntact, [Next]_vars PROVE BuiltInsIntact'
  OBVIOUS
<1> DEFINE n == Len(DefaultIds)
           Fronted(s) == /\ n <= Len(s)
                         /\ \A i \in 1 .. n : s[i] = DefaultProfiles[i]
<1>l. n \in Nat /\ Len(profiles) \in Nat /\ profiles \in Seq(Profile)
  BY DefaultsProperties, LenProperties DEF TypeOK
<1>f. Fronted(profiles) BY DEF BuiltInsIntact
<1>1. CASE UNCHANGED profiles BY <1>1 DEF BuiltInsIntact
<1>2. CASE profiles' = DefaultProfiles
  BY <1>2, <1>l, DefaultsProperties DEF BuiltInsIntact
<1>3. CASE profiles' = LoadProfiles(profilesFile)
  <2>1. WellFormed(LoadProfiles(profilesFile))
    BY LoadedIsWellFormed DEF TypeOK
  <2>q. QED BY <1>3, <2>1 DEF WellFormed, BuiltInsIntact
<1>4. CASE Created
  <2>1. PICK p \in Profile : profiles' = Append(profiles, p)
    BY <1>4 DEF Created
  <2>2. /\ Len(profiles') = Len(profiles) + 1
        /\ \A i \in 1 .. Len(profiles) : profiles'[i] = profiles[i]
    BY <1>l, <2>1, AppendProperties
  <2>3. Fronted(profiles')
    <3>1. n <= Len(profiles') BY <1>f, <1>l, <2>2
    <3>2. 1 .. n \subseteq 1 .. Len(profiles) BY <1>f, <1>l
    <3>q. QED BY <1>f, <2>2, <3>1, <3>2
  <2>q. QED BY <2>3 DEF BuiltInsIntact
<1>5. CASE Replaced
  <2>1. PICK pos \in n + 1 .. Len(profiles), p \in Profile :
          profiles' = [profiles EXCEPT ![pos] = p]
    BY <1>5 DEF Replaced
  <2>2. pos \in 1 .. Len(profiles) /\ pos \notin 1 .. n BY <1>l
  <2>3. /\ Len(profiles') = Len(profiles)
        /\ \A i \in 1 .. Len(profiles) :
             profiles'[i] = IF i = pos THEN p ELSE profiles[i]
    BY <1>l, <2>1, <2>2, ExceptSeq
  <2>4. 1 .. n \subseteq 1 .. Len(profiles) BY <1>f, <1>l
  <2>5. Fronted(profiles') BY <1>f, <2>2, <2>3, <2>4
  <2>q. QED BY <2>5 DEF BuiltInsIntact
<1>6. CASE Removed
  <2>1. PICK pos \in n + 1 .. Len(profiles) : profiles' = Without(profiles, pos)
    BY <1>6 DEF Removed
  <2>2. pos \in 1 .. Len(profiles) BY <1>l
  <2>3. /\ Len(profiles') = Len(profiles) - 1
        /\ \A i \in 1 .. Len(profiles) - 1 :
             profiles'[i] = IF i < pos THEN profiles[i] ELSE profiles[i + 1]
    BY <1>l, <2>1, <2>2, WithoutProperties
  <2>4. n <= Len(profiles) - 1 BY <1>l
  <2>5. ASSUME NEW i \in 1 .. n PROVE profiles'[i] = profiles[i]
    <3>1. i \in 1 .. Len(profiles) - 1 /\ i < pos BY <1>l, <2>4
    <3>q. QED BY <2>3, <3>1
  <2>6. Fronted(profiles') BY <1>f, <2>3, <2>4, <2>5
  <2>q. QED BY <2>6 DEF BuiltInsIntact
<1>q. QED BY <1>1, <1>2, <1>3, <1>4, <1>5, <1>6, ProfilesStep

(* Whatever clients send to update_profile and whatever fails, the built-in
   profiles stay at the front of the vector, as shipped. *)
THEOREM BuiltInsSafe == Spec => []BuiltInsIntact
<1>q. QED
  BY InitTypeOK, NextTypeOK, InitBuiltInsIntact, NextBuiltInsIntact, PTL DEF Spec

-----------------------------------------------------------------------------
(* Unique ids *)

LEMMA InitUniqueIds == Init => UniqueIds
<1> SUFFICES ASSUME Init PROVE UniqueIds OBVIOUS
<1>1. Distinct(DefaultProfiles) BY DefaultsProperties
<1>2. Distinct(<< >>) BY EmptySeq DEF Distinct
<1>q. QED BY <1>1, <1>2 DEF Init, UniqueIds

LEMMA NextDistinctProfiles ==
  ASSUME TrustedClients, TypeOK, BuiltInsIntact, UniqueIds, [Next]_vars
  PROVE  Distinct(profiles')
<1> DEFINE n == Len(DefaultIds)
<1>l. n \in Nat /\ Len(profiles) \in Nat /\ profiles \in Seq(Profile)
  BY DefaultsProperties, LenProperties DEF TypeOK
<1>u. \A i, j \in 1 .. Len(profiles) : profiles[i].id = profiles[j].id => i = j
  BY DEF UniqueIds, Distinct
<1>1. CASE UNCHANGED profiles BY <1>1 DEF UniqueIds, Distinct
<1>2. CASE profiles' = DefaultProfiles BY <1>2, DefaultsProperties
<1>3. CASE profiles' = LoadProfiles(profilesFile)
  BY <1>3, LoadedIsWellFormed DEF TypeOK, UniqueIds
<1>4. CASE Created
  <2>1. PICK p \in Profile :
          ~ Has(profiles, p.id) /\ profiles' = Append(profiles, p)
    BY <1>4 DEF Created
  <2>2. /\ Len(profiles') = Len(profiles) + 1
        /\ \A i \in 1 .. Len(profiles) : profiles'[i] = profiles[i]
        /\ profiles'[Len(profiles) + 1] = p
    BY <1>l, <2>1, AppendProperties
  <2>3. \A i \in 1 .. Len(profiles) : profiles[i].id # p.id
    BY <2>1 DEF Has
  <2>4. ASSUME NEW i \in 1 .. Len(profiles'), NEW j \in 1 .. Len(profiles'),
               profiles'[i].id = profiles'[j].id
        PROVE  i = j
    <3>1. /\ i \in 1 .. Len(profiles) \/ i = Len(profiles) + 1
          /\ j \in 1 .. Len(profiles) \/ j = Len(profiles) + 1
      BY <1>l, <2>2
    <3>q. QED BY <1>u, <2>2, <2>3, <2>4, <3>1
  <2>q. QED BY <2>4 DEF Distinct
<1>5. CASE Replaced
  <2>1. PICK pos \in n + 1 .. Len(profiles), p \in Profile :
          /\ profiles' = [profiles EXCEPT ![pos] = p]
          /\ p.id = profiles[pos].id
    BY <1>5 DEF Replaced
  <2>2. pos \in 1 .. Len(profiles) BY <1>l
  <2>3. /\ Len(profiles') = Len(profiles)
        /\ \A i \in 1 .. Len(profiles) :
             profiles'[i] = IF i = pos THEN p ELSE profiles[i]
    BY <1>l, <2>1, <2>2, ExceptSeq
  <2>4. \A i \in 1 .. Len(profiles) : profiles'[i].id = profiles[i].id
    BY <2>1, <2>3
  <2>q. QED BY <1>u, <2>3, <2>4 DEF Distinct
<1>6. CASE Removed
  <2>1. PICK pos \in n + 1 .. Len(profiles) : profiles' = Without(profiles, pos)
    BY <1>6 DEF Removed
  <2>2. pos \in 1 .. Len(profiles) BY <1>l
  <2>3. /\ Len(profiles') = Len(profiles) - 1
        /\ \A i \in 1 .. Len(profiles) - 1 :
             profiles'[i] = IF i < pos THEN profiles[i] ELSE profiles[i + 1]
    BY <1>l, <2>1, <2>2, WithoutProperties
  <2> DEFINE Old(i) == IF i < pos THEN i ELSE i + 1
  <2>4. ASSUME NEW i \in 1 .. Len(profiles')
        PROVE  Old(i) \in 1 .. Len(profiles) /\ profiles'[i] = profiles[Old(i)]
    BY <1>l, <2>3
  <2>5. ASSUME NEW i \in 1 .. Len(profiles'), NEW j \in 1 .. Len(profiles'),
               profiles'[i].id = profiles'[j].id
        PROVE  i = j
    <3>1. Old(i) = Old(j)
      <4> HIDE DEF Old
      <4>q. QED BY <1>u, <2>4, <2>5
    <3>q. QED BY <1>l, <2>3, <3>1
  <2>q. QED BY <2>5 DEF Distinct
<1>q. QED BY <1>1, <1>2, <1>3, <1>4, <1>5, <1>6, ProfilesStep

(* The file changes only when it is saved: truncated, then filled with the
   customs of the vector. *)
LEMMA FileStep ==
  ASSUME [Next]_vars
  PROVE  \/ UNCHANGED profilesFile
         \/ profilesFile' = [state |-> "torn", data |-> << >>]
         \/ profilesFile' = Valid(Customs(profiles))
  BY DEF Next, Start, Stop, Method, CreateProfile, CopyProfile, UpdateProfile,
         DeleteProfile, SetActiveProfile, UpdateSettings, Save, Refuse,
         SaveStep, OpenProfiles, WriteProfiles, SaveProfilesFails,
         OpenSettings, WriteSettings, SaveSettingsFails, vars

LEMMA NextUniqueIds ==
  TrustedClients /\ TypeOK /\ BuiltInsIntact /\ UniqueIds /\ [Next]_vars
    => UniqueIds'
<1> SUFFICES ASSUME TrustedClients, TypeOK, BuiltInsIntact, UniqueIds, [Next]_vars
             PROVE  UniqueIds'
  OBVIOUS
<1>1. Distinct(profiles') BY NextDistinctProfiles
<1>2. Distinct(profilesFile'.data)
  <2>1. CASE UNCHANGED profilesFile BY <2>1 DEF UniqueIds
  <2>2. CASE profilesFile' = [state |-> "torn", data |-> << >>]
    BY <2>2, EmptySeq DEF Distinct
  <2>3. CASE profilesFile' = Valid(Customs(profiles))
    BY <2>3, CustomsProperties DEF Valid, TypeOK, UniqueIds
  <2>q. QED BY <2>1, <2>2, <2>3, FileStep
<1>q. QED BY <1>1, <1>2 DEF UniqueIds, Distinct

(* With clients that send back the profile they were given, no id ever occurs
   twice, in memory or in the file, through failed saves, crashes and
   restarts. *)
THEOREM IdsUnique ==
  ASSUME TrustedClients
  PROVE  Spec => []UniqueIds
<1>1. TypeOK /\ BuiltInsIntact /\ UniqueIds /\ [Next]_vars
        => (TypeOK /\ BuiltInsIntact /\ UniqueIds)'
  BY NextTypeOK, NextBuiltInsIntact, NextUniqueIds
<1>2. Init => TypeOK /\ BuiltInsIntact /\ UniqueIds
  BY InitTypeOK, InitBuiltInsIntact, InitUniqueIds
<1>q. QED BY <1>1, <1>2, PTL DEF Spec

-----------------------------------------------------------------------------
(* Assignments *)

LEMMA HasAfterAppend ==
  ASSUME NEW s \in Seq(Profile), NEW p \in Profile, NEW id, Has(s, id)
  PROVE  Has(Append(s, p), id)
<1>1. /\ Len(s) \in Nat
      /\ Len(Append(s, p)) = Len(s) + 1
      /\ \A i \in 1 .. Len(s) : Append(s, p)[i] = s[i]
  BY LenProperties, AppendProperties
<1>2. PICK i \in 1 .. Len(s) : s[i].id = id BY DEF Has
<1>3. i \in 1 .. Len(Append(s, p)) /\ Append(s, p)[i].id = id BY <1>1, <1>2
<1>q. QED BY <1>3 DEF Has

LEMMA HasAfterReplace ==
  ASSUME NEW s \in Seq(Profile), NEW pos \in 1 .. Len(s), NEW p \in Profile,
         p.id = s[pos].id, NEW id, Has(s, id)
  PROVE  Has([s EXCEPT ![pos] = p], id)
<1> DEFINE t == [s EXCEPT ![pos] = p]
<1>1. /\ Len(t) = Len(s)
      /\ \A i \in 1 .. Len(s) : t[i] = IF i = pos THEN p ELSE s[i]
  BY ExceptSeq
<1> HIDE DEF t
<1>2. PICK i \in 1 .. Len(s) : s[i].id = id BY DEF Has
<1>3. i \in 1 .. Len(t) /\ t[i].id = id BY <1>1, <1>2
<1>4. Has(t, id) BY <1>3 DEF Has
<1>q. QED BY <1>4 DEF t

LEMMA HasAfterRemoval ==
  ASSUME NEW s \in Seq(Profile), NEW pos \in 1 .. Len(s), NEW id, Has(s, id),
         s[pos].id # id
  PROVE  Has(Without(s, pos), id)
<1>1. Len(s) \in Nat BY LenProperties
<1>2. /\ Len(Without(s, pos)) = Len(s) - 1
      /\ \A i \in 1 .. Len(s) - 1 :
           Without(s, pos)[i] = IF i < pos THEN s[i] ELSE s[i + 1]
  BY WithoutProperties
<1>3. PICK i \in 1 .. Len(s) : s[i].id = id BY DEF Has
<1>4. i < pos \/ i > pos BY <1>1, <1>3
<1> DEFINE j == IF i < pos THEN i ELSE i - 1
<1>5. j \in 1 .. Len(s) - 1 /\ (IF j < pos THEN j ELSE j + 1) = i
  BY <1>1, <1>4
<1> HIDE DEF j
<1>6. Without(s, pos)[j] = s[i] BY <1>2, <1>5
<1>q. QED BY <1>2, <1>3, <1>5, <1>6 DEF Has

LEMMA NextKnown ==
  ASSUME TrustedClients, TypeOK, [Next]_vars, pc # "down",
         NEW s \in PowerStates, Known(s)
  PROVE  Known(s)'
<1>p. profiles \in Seq(Profile) /\ settings \in Settings BY DEF TypeOK
<1>1. CASE UNCHANGED <<profiles, settings>> BY <1>1 DEF Known, Has
<1>2. CASE Stop BY <1>2 DEF Stop, DefaultSettings, Known
<1>3. ASSUME NEW p \in Profile, CreateProfile(p) PROVE Known(s)'
  <2>1. CASE profiles' = Append(profiles, p) /\ UNCHANGED settings
    BY <1>p, <2>1, HasAfterAppend DEF Known
  <2>q. QED BY <1>1, <1>3, <2>1 DEF CreateProfile, Refuse
<1>4. ASSUME NEW id \in Ids, NEW newId \in Ids, CopyProfile(id, newId)
      PROVE  Known(s)'
  <2>1. CASE Has(profiles, id)
    <3> DEFINE p == [profiles[First(profiles, id)] EXCEPT !.id = newId]
    <3>1. profiles[First(profiles, id)] \in Profile
      BY <1>p, <2>1, FirstProperties, ElementOfSeq
    <3>2. p \in Profile BY <3>1 DEF Profile
    <3>3. CreateProfile(p) BY <1>4, <2>1 DEF CopyProfile
    <3> HIDE DEF p
    <3>q. QED BY <1>3, <3>2, <3>3
  <2>2. CASE ~ Has(profiles, id)
    BY <1>1, <1>4, <2>2 DEF CopyProfile, Refuse
  <2>q. QED BY <2>1, <2>2
<1>5. ASSUME NEW id \in Ids, NEW p \in Profile, UpdateProfile(id, p)
      PROVE  Known(s)'
  <2>1. CASE Has(profiles, id)
             /\ profiles' = [profiles EXCEPT ![First(profiles, id)] = p]
             /\ UNCHANGED settings
    <3> DEFINE pos == First(profiles, id)
    <3>1. pos \in 1 .. Len(profiles) /\ profiles[pos].id = id
      BY <1>p, <2>1, FirstProperties
    <3>2. p.id = id BY <1>5 DEF UpdateProfile
    <3> HIDE DEF pos
    <3>3. \A x : Has(profiles, x) => Has([profiles EXCEPT ![pos] = p], x)
      BY <1>p, <3>1, <3>2, HasAfterReplace
    <3>4. profiles' = [profiles EXCEPT ![pos] = p] BY <2>1 DEF pos
    <3>q. QED BY <2>1, <3>3, <3>4 DEF Known
  <2>q. QED BY <1>1, <1>5, <2>1 DEF UpdateProfile, Refuse
<1>6. ASSUME NEW id \in Ids, DeleteProfile(id) PROVE Known(s)'
  <2>1. CASE IsDefault(id) \/ ~ Has(profiles, id)
    BY <1>1, <1>6, <2>1 DEF DeleteProfile, Refuse
  <2>2. CASE ~ IsDefault(id) /\ Has(profiles, id)
    <3> DEFINE pos == First(profiles, id)
               old == settings.stateMap[s]
    <3>1. pos \in 1 .. Len(profiles) /\ profiles[pos].id = id
      BY <1>p, <2>2, FirstProperties
    <3>2. profiles' = Without(profiles, pos) BY <1>6, <2>2 DEF DeleteProfile
    <3>3. settings'.stateMap[s] = IF old = id THEN FallbackId ELSE old
      BY <1>6, <1>p, <2>2 DEF DeleteProfile, Settings
    <3> HIDE DEF pos
    <3>4. old # id /\ Has(profiles, old) => Has(profiles', old)
      BY <1>p, <3>1, <3>2, HasAfterRemoval
    <3>q. QED BY <3>3, <3>4 DEF Known
  <2>q. QED BY <2>1, <2>2
<1>7. ASSUME NEW id \in Ids, NEW t \in PowerStates, SetActiveProfile(id, t)
      PROVE  Known(s)'
  <2>1. CASE /\ Has(profiles, id)
             /\ settings' = [settings EXCEPT !.stateMap[t] = id]
             /\ UNCHANGED profiles
    <3>1. settings'.stateMap[s] = IF s = t THEN id ELSE settings.stateMap[s]
      BY <1>p, <2>1 DEF Settings
    <3>q. QED BY <2>1, <3>1 DEF Known, Has
  <2>q. QED BY <1>1, <1>7, <2>1 DEF SetActiveProfile, Refuse
<1>8. ASSUME NEW f \in Flags, UpdateSettings(f) PROVE Known(s)'
  <2>1. UNCHANGED profiles /\ settings'.stateMap = settings.stateMap
    BY <1>8, <1>p DEF UpdateSettings, Settings
  <2>q. QED BY <2>1 DEF Known, Has
<1>9. CASE SaveStep
  BY <1>1, <1>9 DEF SaveStep, OpenProfiles, WriteProfiles, SaveProfilesFails,
                    OpenSettings, WriteSettings, SaveSettingsFails
<1>10. CASE Start BY <1>10 DEF Start
<1>11. CASE UNCHANGED vars BY <1>1, <1>11 DEF vars
<1>q. QED
  BY <1>2, <1>3, <1>4, <1>5, <1>6, <1>7, <1>8, <1>9, <1>10, <1>11
  DEF Next, Method

(* With clients that send back the profile they were given, no step but a
   restart takes the profile of a power state away: delete_profile, which does,
   falls back in the same step, and no failed save undoes that in memory. *)
THEOREM AssignmentsKept ==
  ASSUME TrustedClients
  PROVE  Spec => AssignmentsStayKnown
<1>1. TypeOK /\ [Next]_vars
        => [pc # "down" => \A s \in PowerStates : Known(s) => Known(s)']_vars
  BY NextKnown
<1>q. QED
  BY <1>1, InitTypeOK, NextTypeOK, PTL DEF Spec, AssignmentsStayKnown

-----------------------------------------------------------------------------
(* Saving.  The two files are saved by methods in the middle of their work;
   what a reply says of the disk needs to know which method is at which step. *)

SavingProfiles == pc \in {"open_profiles", "write_profiles"}
SavingSettings == pc \in {"open_settings", "write_settings"}

Steps ==
  /\ SavingProfiles => op \in {"create", "update", "delete"}
  /\ SavingSettings => op \in {"delete", "assign", "settings"}
  /\ pc # "idle" => reply = "none"
  /\ pc = "down" => profiles = DefaultProfiles /\ settings = DefaultSettings

(* What a method does before its first save. *)
LEMMA MethodEffect ==
  ASSUME Method
  PROVE  /\ pc = "idle"
         /\ UNCHANGED <<profilesFile, settingsFile>>
         /\ \/ reply' = "err" /\ UNCHANGED <<profiles, settings, pc>>
            \/ /\ reply' = "none" /\ pc' = "open_profiles"
               /\ op' \in {"create", "update"} /\ UNCHANGED settings
            \/ reply' = "none" /\ pc' = "open_profiles" /\ op' = "delete"
            \/ /\ reply' = "none" /\ pc' = "open_settings"
               /\ op' \in {"assign", "settings"} /\ UNCHANGED profiles
<1>1. ASSUME NEW p \in Profile, CreateProfile(p)
      PROVE  /\ pc = "idle"
             /\ UNCHANGED <<profilesFile, settingsFile, settings>>
             /\ \/ reply' = "err" /\ UNCHANGED <<profiles, pc>>
                \/ reply' = "none" /\ pc' = "open_profiles" /\ op' = "create"
  BY <1>1 DEF CreateProfile, Save, Refuse
<1>2. ASSUME NEW id \in Ids, NEW newId \in Ids, CopyProfile(id, newId)
      PROVE  /\ pc = "idle"
             /\ UNCHANGED <<profilesFile, settingsFile, settings>>
             /\ \/ reply' = "err" /\ UNCHANGED <<profiles, pc>>
                \/ reply' = "none" /\ pc' = "open_profiles" /\ op' = "create"
  BY <1>2 DEF CopyProfile, CreateProfile, Save, Refuse
<1>3. ASSUME NEW id \in Ids, NEW p \in Profile, UpdateProfile(id, p)
      PROVE  /\ pc = "idle"
             /\ UNCHANGED <<profilesFile, settingsFile, settings>>
             /\ \/ reply' = "err" /\ UNCHANGED <<profiles, pc>>
                \/ reply' = "none" /\ pc' = "open_profiles" /\ op' = "update"
  BY <1>3 DEF UpdateProfile, Save, Refuse
<1>4. ASSUME NEW id \in Ids, DeleteProfile(id)
      PROVE  /\ pc = "idle"
             /\ UNCHANGED <<profilesFile, settingsFile>>
             /\ \/ reply' = "err" /\ UNCHANGED <<profiles, settings, pc>>
                \/ reply' = "none" /\ pc' = "open_profiles" /\ op' = "delete"
  BY <1>4 DEF DeleteProfile, Save, Refuse
<1>5. ASSUME NEW id \in Ids, NEW s \in PowerStates, SetActiveProfile(id, s)
      PROVE  /\ pc = "idle"
             /\ UNCHANGED <<profilesFile, settingsFile, profiles>>
             /\ \/ reply' = "err" /\ UNCHANGED <<settings, pc>>
                \/ reply' = "none" /\ pc' = "open_settings" /\ op' = "assign"
  BY <1>5 DEF SetActiveProfile, Save, Refuse
<1>6. ASSUME NEW f \in Flags, UpdateSettings(f)
      PROVE  /\ pc = "idle"
             /\ UNCHANGED <<profilesFile, settingsFile, profiles>>
             /\ reply' = "none" /\ pc' = "open_settings" /\ op' = "settings"
  BY <1>6 DEF UpdateSettings, Save
<1>q. QED BY <1>1, <1>2, <1>3, <1>4, <1>5, <1>6 DEF Method

LEMMA InitSteps == Init => Steps
  BY DEF Init, Steps, SavingProfiles, SavingSettings

LEMMA NextSteps == Steps /\ [Next]_vars => Steps'
<1> SUFFICES ASSUME Steps, [Next]_vars PROVE Steps' OBVIOUS
<1> USE DEF Steps, SavingProfiles, SavingSettings
<1>1. CASE Start BY <1>1 DEF Start
<1>2. CASE Stop BY <1>2 DEF Stop
<1>3. CASE Method BY <1>3, MethodEffect
<1>4. CASE OpenProfiles BY <1>4 DEF OpenProfiles
<1>5. CASE WriteProfiles BY <1>5 DEF WriteProfiles
<1>6. CASE SaveProfilesFails BY <1>6 DEF SaveProfilesFails
<1>7. CASE OpenSettings BY <1>7 DEF OpenSettings
<1>8. CASE WriteSettings BY <1>8 DEF WriteSettings
<1>9. CASE SaveSettingsFails BY <1>9 DEF SaveSettingsFails
<1>10. CASE UNCHANGED vars BY <1>10 DEF vars
<1>q. QED
  BY <1>1, <1>2, <1>3, <1>4, <1>5, <1>6, <1>7, <1>8, <1>9, <1>10
  DEF Next, SaveStep

(* delete_profile goes on to the settings only after it has saved the
   profiles. *)
HalfWay ==
  SavingSettings /\ op = "delete" => LoadProfiles(profilesFile) = profiles

LEMMA VectorIsWellFormed ==
  ASSUME TypeOK, BuiltInsIntact, UniqueIds
  PROVE  WellFormed(profiles)
<1> DEFINE n == Len(DefaultIds)
<1>l. n \in Nat /\ Len(profiles) \in Nat /\ n <= Len(profiles)
  BY DefaultsProperties, LenProperties DEF TypeOK, BuiltInsIntact
<1>1. ASSUME NEW i \in n + 1 .. Len(profiles), IsDefault(profiles[i].id)
      PROVE  FALSE
  <2>1. PICK j \in 1 .. n : DefaultIds[j] = profiles[i].id
    BY <1>1 DEF IsDefault
  <2>2. profiles[j].id = profiles[i].id
    BY <2>1, DefaultsProperties DEF BuiltInsIntact
  <2>3. j \in 1 .. Len(profiles) /\ i \in 1 .. Len(profiles) /\ i # j
    BY <1>l
  <2>q. QED BY <2>2, <2>3 DEF UniqueIds, Distinct
<1>q. QED BY <1>1 DEF WellFormed, BuiltInsIntact

LEMMA NextAckedOnDisk ==
  ASSUME TypeOK, BuiltInsIntact, UniqueIds, Steps, HalfWay, AckedOnDisk,
         [Next]_vars
  PROVE  HalfWay' /\ AckedOnDisk'
<1> USE DEF HalfWay, AckedOnDisk, Steps, SavingProfiles, SavingSettings
<1>1. CASE Start BY <1>1 DEF Start
<1>2. CASE Stop BY <1>2 DEF Stop
<1>3. CASE Method BY <1>3, MethodEffect
<1>4. CASE OpenProfiles BY <1>4 DEF OpenProfiles
<1>5. CASE WriteProfiles
  <2>1. LoadProfiles(profilesFile') = profiles'
    BY <1>5, VectorIsWellFormed, SavedAndLoaded DEF WriteProfiles, TypeOK
  <2>q. QED BY <1>5, <2>1 DEF WriteProfiles
<1>6. CASE SaveProfilesFails BY <1>6 DEF SaveProfilesFails
<1>7. CASE OpenSettings BY <1>7 DEF OpenSettings
<1>8. CASE WriteSettings
  <2>1. LoadSettings(settingsFile') = settings'
    BY <1>8 DEF WriteSettings, LoadSettings, Valid
  <2>2. UNCHANGED <<profiles, profilesFile, op>> BY <1>8 DEF WriteSettings
  <2>q. QED BY <1>8, <2>1, <2>2 DEF WriteSettings
<1>9. CASE SaveSettingsFails BY <1>9 DEF SaveSettingsFails
<1>10. CASE UNCHANGED vars BY <1>10 DEF vars
<1>q. QED
  BY <1>1, <1>2, <1>3, <1>4, <1>5, <1>6, <1>7, <1>8, <1>9, <1>10
  DEF Next, SaveStep

(* What a method acknowledges is on disk, for both files, whatever saves
   failed before it: the profiles come back from the file in the order of the
   vector, because the built-ins stand at its front and no other profile has
   one of their ids. *)
THEOREM AcksDurable ==
  ASSUME TrustedClients
  PROVE  Spec => []AckedOnDisk
<1> DEFINE Inv == /\ TypeOK /\ BuiltInsIntact /\ UniqueIds
                  /\ Steps /\ HalfWay /\ AckedOnDisk
<1>1. Init => Inv
  <2>1. Init => HalfWay /\ AckedOnDisk
    BY DEF Init, HalfWay, SavingSettings, AckedOnDisk
  <2>q. QED
    BY <2>1, InitTypeOK, InitBuiltInsIntact, InitUniqueIds, InitSteps
<1>2. Inv /\ [Next]_vars => Inv'
  BY NextTypeOK, NextBuiltInsIntact, NextUniqueIds, NextSteps, NextAckedOnDisk
<1>3. Inv => AckedOnDisk OBVIOUS
<1> HIDE DEF Inv
<1>q. QED BY <1>1, <1>2, <1>3, PTL DEF Spec

-----------------------------------------------------------------------------
(* Both files are written through.  A step of ProfileStore is one step of
   WriteThrough, or none, for each of them.  For the profiles, a restart
   brings back what the file holds because the file never holds a built-in
   profile, so that loading drops nothing. *)

FileIsCustom ==
  \A i \in 1 .. Len(profilesFile.data) : ~ IsDefault(profilesFile.data[i].id)

LEMMA CustomsOfDefaults == Customs(DefaultProfiles) = << >>
<1> DEFINE f == [state |-> "absent", data |-> << >>]
<1>1. f \in File(Seq(Profile)) BY EmptySeq DEF File
<1>2. \A i \in 1 .. Len(f.data) : ~ IsDefault(f.data[i].id) BY EmptySeq
<1>3. LoadProfiles(f) = DefaultProfiles BY DEF LoadProfiles
<1>4. Customs(LoadProfiles(f)) = IF f.state = "valid" THEN f.data ELSE << >>
  <2> HIDE DEF f
  <2>q. QED BY <1>1, <1>2, CustomsOfLoaded
<1>q. QED BY <1>3, <1>4

LEMMA NextFileIsCustom == TypeOK /\ FileIsCustom /\ [Next]_vars => FileIsCustom'
<1> SUFFICES ASSUME TypeOK, FileIsCustom, [Next]_vars PROVE FileIsCustom'
  OBVIOUS
<1>1. CASE UNCHANGED profilesFile BY <1>1 DEF FileIsCustom
<1>2. CASE profilesFile' = [state |-> "torn", data |-> << >>]
  BY <1>2, EmptySeq DEF FileIsCustom
<1>3. CASE profilesFile' = Valid(Customs(profiles))
  BY <1>3, CustomsProperties DEF Valid, TypeOK, FileIsCustom
<1>q. QED BY <1>1, <1>2, <1>3, FileStep

Durable == IF profilesFile.state = "valid" THEN profilesFile.data ELSE << >>

LEMMA InitProfilesRefine == Init => Profiles!Init
  BY CustomsOfDefaults DEF Init, Profiles!Init

LEMMA NextProfilesRefine ==
  ASSUME TypeOK, TypeOK', Steps, FileIsCustom, [Next]_vars
  PROVE  [Profiles!Next]_(Profiles!wvars)
<1>1. CASE Start
  <2>1. Customs(LoadProfiles(profilesFile)) = Durable
    BY CustomsOfLoaded DEF TypeOK, FileIsCustom, Durable
  <2>2. Profiles!Restart
    BY <1>1, <2>1 DEF Start, Durable, Profiles!Restart
  <2>q. QED BY <2>2 DEF Profiles!Next
<1>2. CASE Stop
  <2>1. Profiles!Off BY <1>2, CustomsOfDefaults DEF Stop, Profiles!Off
  <2>q. QED BY <2>1 DEF Profiles!Next
<1>3. CASE Method
  <2>1. pc = "idle" /\ UNCHANGED profilesFile BY <1>3, MethodEffect
  <2>2. CASE UNCHANGED profiles /\ pc' # "open_profiles"
    <3>1. pc' \in {"idle", "open_settings"} BY <1>3, <2>1, <2>2, MethodEffect
    <3>q. QED BY <2>1, <2>2, <3>1 DEF Profiles!wvars
  <2>3. CASE pc' = "open_profiles"
    <3>1. Customs(profiles') \in Seq(Profile)
      BY CustomsProperties DEF TypeOK
    <3>2. Profiles!Change BY <2>1, <2>3, <3>1 DEF Profiles!Change
    <3>q. QED BY <3>2 DEF Profiles!Next
  <2>q. QED BY <1>3, <2>1, <2>2, <2>3, MethodEffect
<1>4. CASE OpenProfiles
  <2>1. Profiles!Tear BY <1>4 DEF OpenProfiles, Profiles!Tear
  <2>q. QED BY <2>1 DEF Profiles!Next
<1>5. CASE WriteProfiles
  <2>1. Profiles!Sync BY <1>5 DEF WriteProfiles, Valid, Profiles!Sync
  <2>q. QED BY <2>1 DEF Profiles!Next
<1>6. CASE SaveProfilesFails
  <2>1. Profiles!Fail BY <1>6 DEF SaveProfilesFails, Profiles!Fail
  <2>q. QED BY <2>1 DEF Profiles!Next
<1>7. CASE OpenSettings BY <1>7 DEF OpenSettings, Profiles!wvars
<1>8. CASE WriteSettings BY <1>8 DEF WriteSettings, Profiles!wvars
<1>9. CASE SaveSettingsFails BY <1>9 DEF SaveSettingsFails, Profiles!wvars
<1>10. CASE UNCHANGED vars BY <1>10 DEF vars, Profiles!wvars
<1>q. QED
  BY <1>1, <1>2, <1>3, <1>4, <1>5, <1>6, <1>7, <1>8, <1>9, <1>10
  DEF Next, SaveStep

(* The profiles that are not built in are written through to profiles.json,
   also when clients change the id of a profile they update: nothing but the
   old profiles, the new ones or none can be there after a restart, and once a
   save has succeeded nothing older comes back. *)
THEOREM ProfilesRefine == Spec => ProfilesWrittenThrough
<1> DEFINE Inv == TypeOK /\ Steps /\ FileIsCustom
<1>1. Init => Inv
  <2>1. Init => FileIsCustom BY EmptySeq DEF Init, FileIsCustom
  <2>q. QED BY <2>1, InitTypeOK, InitSteps
<1>2. Inv /\ [Next]_vars => Inv'
  BY NextTypeOK, NextSteps, NextFileIsCustom
<1>3. Inv /\ Inv' /\ [Next]_vars => [Profiles!Next]_(Profiles!wvars)
  BY NextProfilesRefine
<1> HIDE DEF Inv
<1>q. QED
  BY <1>1, <1>2, <1>3, InitProfilesRefine, PTL
  DEF Spec, ProfilesWrittenThrough, Profiles!Spec

LEMMA InitAssignmentsRefine == Init => Assignments!Init
  BY DEF Init, LoadSettings, Assignments!Init

LEMMA NextAssignmentsRefine ==
  ASSUME TypeOK, TypeOK', Steps, Steps', [Next]_vars
  PROVE  [Assignments!Next]_(Assignments!wvars)
<1> USE DEF Steps, SavingProfiles, SavingSettings
<1>1. CASE Start
  <2>1. Assignments!Restart BY <1>1 DEF Start, Assignments!Restart
  <2>q. QED BY <2>1 DEF Assignments!Next
<1>2. CASE Stop
  <2>1. Assignments!Off BY <1>2 DEF Stop, Assignments!Off
  <2>q. QED BY <2>1 DEF Assignments!Next
<1>3. CASE Method
  <2>1. pc = "idle" /\ UNCHANGED settingsFile BY <1>3, MethodEffect
  <2>2. CASE UNCHANGED settings /\ (pc' = "idle" \/ op' \in {"create", "update"})
    <3>1. pc' # "down" BY <1>3, <2>1, MethodEffect
    <3>q. QED BY <2>1, <2>2, <3>1 DEF Assignments!wvars
  <2>3. CASE pc' \in {"open_profiles", "open_settings"}
             /\ op' \in {"delete", "assign", "settings"}
    <3>1. settings' \in Settings BY DEF TypeOK
    <3>2. Assignments!Change BY <2>1, <2>3, <3>1 DEF Assignments!Change
    <3>q. QED BY <3>2 DEF Assignments!Next
  <2>q. QED BY <1>3, <2>1, <2>2, <2>3, MethodEffect
<1>4. CASE OpenProfiles BY <1>4 DEF OpenProfiles, Assignments!wvars
<1>5. CASE WriteProfiles
  BY <1>5 DEF WriteProfiles, Assignments!wvars
<1>6. CASE SaveProfilesFails
  <2>1. CASE op = "delete"
    <3>1. Assignments!Fail BY <1>6, <2>1 DEF SaveProfilesFails, Assignments!Fail
    <3>q. QED BY <3>1 DEF Assignments!Next
  <2>2. CASE op # "delete"
    BY <1>6, <2>2 DEF SaveProfilesFails, Assignments!wvars
  <2>q. QED BY <2>1, <2>2
<1>7. CASE OpenSettings
  <2>1. Assignments!Tear
    BY <1>7 DEF OpenSettings, LoadSettings, Assignments!Tear
  <2>q. QED BY <2>1 DEF Assignments!Next
<1>8. CASE WriteSettings
  <2>1. Assignments!Sync
    BY <1>8 DEF WriteSettings, LoadSettings, Valid, Assignments!Sync
  <2>q. QED BY <2>1 DEF Assignments!Next
<1>9. CASE SaveSettingsFails
  <2>1. Assignments!Fail BY <1>9 DEF SaveSettingsFails, Assignments!Fail
  <2>q. QED BY <2>1 DEF Assignments!Next
<1>10. CASE UNCHANGED vars BY <1>10 DEF vars, Assignments!wvars
<1>q. QED
  BY <1>1, <1>2, <1>3, <1>4, <1>5, <1>6, <1>7, <1>8, <1>9, <1>10
  DEF Next, SaveStep

(* So are the settings to settings.json; delete_profile is one save of them
   that begins with the save of the profiles. *)
THEOREM AssignmentsRefine == Spec => SettingsWrittenThrough
<1> DEFINE Inv == TypeOK /\ Steps
<1>1. Init => Inv BY InitTypeOK, InitSteps
<1>2. Inv /\ [Next]_vars => Inv' BY NextTypeOK, NextSteps
<1>3. Inv /\ Inv' /\ [Next]_vars => [Assignments!Next]_(Assignments!wvars)
  BY NextAssignmentsRefine
<1> HIDE DEF Inv
<1>q. QED
  BY <1>1, <1>2, <1>3, InitAssignmentsRefine, PTL
  DEF Spec, SettingsWrittenThrough, Assignments!Spec
=============================================================================
