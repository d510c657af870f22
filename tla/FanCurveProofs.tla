--------------------------- MODULE FanCurveProofs ---------------------------
(***************************************************************************)
(* Theorems about interpolate_fan_curve, for tables of any length and any  *)
(* temperatures and speeds; first which segment it takes, and that         *)
(* rounding never leaves the segment.                                      *)
(***************************************************************************)
EXTENDS MCFanCurve, WellFoundedInduction, TLAPS

-----------------------------------------------------------------------------
(* Numbers *)

(* A nonempty set of natural numbers has a least element. *)
LEMMA LeastNumber ==
  ASSUME NEW T \in SUBSET Nat, T # {}
  PROVE  \E n \in T : \A m \in T : n <= m
<1> DEFINE R == OpToRel(<, Nat)
<1>1. PICK n \in T : \A m \in T : ~ (<<m, n>> \in R)
  BY NatLessThanWellFounded, WFMin, Zenon
<1>2. \A m \in T : ~ (m < n) BY <1>1 DEF OpToRel
<1>q. QED BY <1>2

(* Rounding a fraction does not take it across a whole number. *)
LEMMA RoundedWithin ==
  ASSUME NEW num \in Int, NEW den \in Nat \ {0}, NEW m \in Int, NEW M \in Int,
         m * den <= num, num <= M * den
  PROVE  Rounded(num, den) \in Int /\ m <= Rounded(num, den) /\ Rounded(num, den) <= M
<1> DEFINE r == (2 * num + den) \div (2 * den)
<1>1. r \in Int /\ (2 * den) * r <= 2 * num + den /\ 2 * num + den < (2 * den) * (r + 1)
  OBVIOUS
<1> HIDE DEF r
<1>2. m <= r
  <2>1. SUFFICES ASSUME r + 1 <= m PROVE FALSE BY <1>1
  <2>2. (2 * den) * (r + 1) <= (2 * den) * m BY <1>1, <2>1
  <2>q. QED BY <1>1, <2>2
<1>3. r <= M
  <2>1. SUFFICES ASSUME M + 1 <= r PROVE FALSE BY <1>1
  <2>2. (2 * den) * (M + 1) <= (2 * den) * r BY <1>1, <2>1
  <2>q. QED BY <1>1, <2>2
<1>q. QED BY <1>1, <1>2, <1>3 DEF r, Rounded

(* Rounding keeps the order of fractions. *)
LEMMA RoundedRises ==
  ASSUME NEW num \in Int, NEW more \in Int, num <= more, NEW den \in Nat \ {0}
  PROVE  Rounded(num, den) <= Rounded(more, den)
<1> DEFINE r == (2 * num + den) \div (2 * den)
           s == (2 * more + den) \div (2 * den)
<1>1. r \in Int /\ (2 * den) * r <= 2 * num + den OBVIOUS
<1>2. s \in Int /\ 2 * more + den < (2 * den) * (s + 1) OBVIOUS
<1> HIDE DEF r, s
<1>3. r <= s
  <2>1. SUFFICES ASSUME s + 1 <= r PROVE FALSE BY <1>1, <1>2
  <2>2. (2 * den) * (s + 1) <= (2 * den) * r BY <1>1, <1>2, <2>1
  <2>q. QED BY <1>1, <1>2, <2>2
<1>q. QED BY <1>3 DEF r, s, Rounded

-----------------------------------------------------------------------------
(* A segment *)

LEMMA Degrees ==
  ASSUME NEW p \in Point
  PROVE  At(p) \in Nat /\ p.speed \in Byte /\ p.speed \in Nat
BY UnitAssumption DEF At, Point, Byte

(* Within a segment the speed stays between those of its ends. *)
LEMMA BetweenWithin ==
  ASSUME NEW lo \in Point, NEW hi \in Point, NEW t \in Int,
         At(lo) < t, t <= At(hi)
  PROVE  /\ Between(lo, hi, t) \in Int
         /\ lo.speed <= hi.speed =>
              lo.speed <= Between(lo, hi, t) /\ Between(lo, hi, t) <= hi.speed
         /\ hi.speed <= lo.speed =>
              hi.speed <= Between(lo, hi, t) /\ Between(lo, hi, t) <= lo.speed
<1> DEFINE a == lo.speed
           b == hi.speed
           range == At(hi) - At(lo)
           x == t - At(lo)
           num == a * range + x * (b - a)
<1>1. /\ a \in Nat /\ b \in Nat /\ range \in Nat \ {0}
      /\ a \in Int /\ b \in Int /\ x \in Nat /\ x <= range
  BY Degrees
<1>2. Between(lo, hi, t) = Rounded(num, range) BY <1>1 DEF Between
<1> HIDE DEF a, b, range, x
<1>3. num \in Int BY <1>1
<1> DEFINE Goal(v) ==
             /\ v \in Int
             /\ a <= b => a <= v /\ v <= b
             /\ b <= a => b <= v /\ v <= a
<1>4. ASSUME a <= b PROVE Goal(Between(lo, hi, t))
  <2>1. 0 <= x * (b - a) /\ x * (b - a) <= range * (b - a) BY <1>1, <1>4
  <2>2. a * range <= num /\ num <= b * range
    <3>1. a * range + range * (b - a) = b * range BY <1>1
    <3>q. QED BY <1>1, <2>1, <3>1
  <2> HIDE DEF num
  <2>3. /\ Rounded(num, range) \in Int
        /\ a <= Rounded(num, range) /\ Rounded(num, range) <= b
    BY <1>1, <1>3, <2>2, RoundedWithin, Zenon
  <2>4. b <= a => b <= Rounded(num, range) /\ Rounded(num, range) <= a
    BY <1>1, <1>4, <2>3
  <2>q. QED BY <1>2, <1>4, <2>3, <2>4
<1>5. ASSUME b <= a PROVE Goal(Between(lo, hi, t))
  <2>1. 0 <= x * (a - b) /\ x * (a - b) <= range * (a - b) BY <1>1, <1>5
  <2>2. b * range <= num /\ num <= a * range
    <3>1. a * range - range * (a - b) = b * range BY <1>1
    <3>2. x * (b - a) = - (x * (a - b)) BY <1>1
    <3>3. num = a * range - x * (a - b) BY <1>1, <3>2
    <3> HIDE DEF num
    <3>q. QED BY <1>1, <1>3, <2>1, <3>1, <3>3
  <2> HIDE DEF num
  <2>3. /\ Rounded(num, range) \in Int
        /\ b <= Rounded(num, range) /\ Rounded(num, range) <= a
    BY <1>1, <1>3, <2>2, RoundedWithin, Zenon
  <2>4. a <= b => a <= Rounded(num, range) /\ Rounded(num, range) <= b
    BY <1>1, <1>5, <2>3
  <2>q. QED BY <1>2, <1>5, <2>3, <2>4
<1>6. Goal(Between(lo, hi, t))
  <2> HIDE DEF Goal
  <2>1. a <= b \/ b <= a BY <1>1
  <2>q. QED BY <1>4, <1>5, <2>1
<1>q. QED BY <1>6, Zenon DEF a, b

(* At its end a segment has the speed of its upper point. *)
LEMMA BetweenAtEnd ==
  ASSUME NEW lo \in Point, NEW hi \in Point, At(lo) < At(hi)
  PROVE  Between(lo, hi, At(hi)) = hi.speed
<1> DEFINE a == lo.speed
           b == hi.speed
           range == At(hi) - At(lo)
           num == a * range + range * (b - a)
<1>1. a \in Nat /\ b \in Nat /\ b \in Int /\ range \in Nat \ {0} BY Degrees
<1>2. Between(lo, hi, At(hi)) = Rounded(num, range) BY <1>1 DEF Between
<1> HIDE DEF a, b, range
<1>3. num \in Int /\ b * range <= num /\ num <= b * range BY <1>1
<1> HIDE DEF num
<1>4. /\ Rounded(num, range) \in Int
      /\ b <= Rounded(num, range) /\ Rounded(num, range) <= b
  BY <1>1, <1>3, RoundedWithin, Zenon
<1>q. QED BY <1>1, <1>2, <1>4 DEF b

(* On a segment whose speeds rise, a higher reading gets no lower speed. *)
LEMMA BetweenRises ==
  ASSUME NEW lo \in Point, NEW hi \in Point, NEW t \in Int, NEW u \in Int,
         At(lo) < t, t <= u, u <= At(hi), lo.speed <= hi.speed
  PROVE  Between(lo, hi, t) <= Between(lo, hi, u)
<1> DEFINE a == lo.speed
           b == hi.speed
           range == At(hi) - At(lo)
           x == t - At(lo)
           y == u - At(lo)
<1>1. /\ a \in Nat /\ b \in Nat /\ a <= b /\ range \in Nat \ {0}
      /\ x \in Nat /\ y \in Nat /\ x <= y
  BY Degrees
<1>2. /\ Between(lo, hi, t) = Rounded(a * range + x * (b - a), range)
      /\ Between(lo, hi, u) = Rounded(a * range + y * (b - a), range)
  BY <1>1 DEF Between
<1> HIDE DEF a, b, range, x, y
<1>3. x * (b - a) <= y * (b - a) BY <1>1
<1>4. /\ a * range + x * (b - a) \in Int /\ a * range + y * (b - a) \in Int
      /\ a * range + x * (b - a) <= a * range + y * (b - a)
  BY <1>1, <1>3
<1>q. QED BY <1>1, <1>2, <1>4, RoundedRises

-----------------------------------------------------------------------------
(* A table *)

LEMMA TablePoints ==
  ASSUME NEW points \in Table
  PROVE  /\ Len(points) \in Nat
         /\ \A i \in 1 .. Len(points) : /\ points[i] \in Point
                                       /\ At(points[i]) \in Nat
                                       /\ points[i].speed \in Byte
         /\ points # << >> => Len(points) # 0
BY Degrees DEF Table

(* Below the last point there is a segment, and the reading is within it. *)
LEMMA UpperExists ==
  ASSUME NEW points \in Table, NEW t \in Int, Len(points) > 1, t <= At(points[Len(points)])
  PROVE  Upper(points, t) \in 2 .. Len(points) /\ IsUpper(points, t, Upper(points, t))
<1> DEFINE T == {i \in 2 .. Len(points) : t <= At(points[i])}
<1>1. Len(points) \in Nat /\ \A i \in 1 .. Len(points) : At(points[i]) \in Nat
  BY TablePoints
<1>2. T \in SUBSET Nat /\ Len(points) \in T BY <1>1
<1>3. PICK i \in T : \A j \in T : i <= j
  <2> HIDE DEF T
  <2>q. QED BY <1>2, LeastNumber
<1>4. ASSUME NEW j \in 2 .. i - 1 PROVE At(points[j]) < t
  <2>1. j \in 2 .. Len(points) /\ j \in 1 .. Len(points) /\ ~ (i <= j) BY <1>1, <1>3
  <2>2. j \notin T BY <1>3, <2>1
  <2>q. QED BY <1>1, <2>1, <2>2
<1>5. i \in 2 .. Len(points) /\ IsUpper(points, t, i) BY <1>3, <1>4 DEF IsUpper
<1>q. QED BY <1>5 DEF Upper

(* The point under that segment is below the reading. *)
LEMMA LowerIsBelow ==
  ASSUME NEW points \in Table, NEW t \in Int, Len(points) > 1,
         At(points[1]) < t, t <= At(points[Len(points)])
  PROVE  LET u == Upper(points, t) IN
         /\ u \in 2 .. Len(points) /\ u - 1 \in 1 .. Len(points) /\ u \in 1 .. Len(points)
         /\ At(points[u - 1]) < t /\ t <= At(points[u])
<1> DEFINE u == Upper(points, t)
<1>1. u \in 2 .. Len(points) /\ IsUpper(points, t, u) BY UpperExists
<1> HIDE DEF u
<1>2. Len(points) \in Nat BY TablePoints
<1>3. u - 1 \in 1 .. Len(points) /\ u \in 1 .. Len(points) BY <1>1, <1>2
<1>4. At(points[u - 1]) < t
  <2>1. CASE u = 2 BY <2>1
  <2>2. CASE u # 2
    <3>1. u - 1 \in 2 .. u - 1 BY <1>1, <1>2, <2>2
    <3>q. QED BY <1>1, <3>1 DEF IsUpper
  <2>q. QED BY <2>1, <2>2
<1>5. t <= At(points[u]) BY <1>1 DEF IsUpper
<1>q. QED BY <1>1, <1>3, <1>4, <1>5 DEF u

(* The speed of a table is that of a point, or lies between those of two. *)
LEMMA InterpolateWithin ==
  ASSUME NEW points \in Table, NEW t \in Int, points # << >>
  PROVE  \E i, j \in 1 .. Len(points) :
           points[i].speed <= Interpolate(points, t) /\ Interpolate(points, t) <= points[j].speed
<1>1. /\ Len(points) \in Nat /\ Len(points) # 0
      /\ \A i \in 1 .. Len(points) : points[i] \in Point /\ points[i].speed \in Nat
      /\ At(points[1]) \in Nat /\ At(points[Len(points)]) \in Nat
  BY TablePoints, Degrees
<1>2. CASE Len(points) = 1 \/ t <= At(points[1])
  <2>1. Interpolate(points, t) = points[1].speed /\ 1 \in 1 .. Len(points)
    BY <1>1, <1>2 DEF Interpolate
  <2>2. points[1].speed <= points[1].speed BY <1>1, <2>1
  <2>q. QED BY <2>1, <2>2
<1>3. CASE ~ (Len(points) = 1 \/ t <= At(points[1])) /\ t >= At(points[Len(points)])
  <2>1. /\ Interpolate(points, t) = points[Len(points)].speed
        /\ Len(points) \in 1 .. Len(points)
    BY <1>1, <1>3 DEF Interpolate
  <2>2. points[Len(points)].speed <= points[Len(points)].speed BY <1>1, <2>1
  <2>q. QED BY <2>1, <2>2
<1>4. CASE ~ (Len(points) = 1 \/ t <= At(points[1])) /\ ~ (t >= At(points[Len(points)]))
  <2> DEFINE u == Upper(points, t)
             v == Between(points[u - 1], points[u], t)
  <2>1. Interpolate(points, t) = v BY <1>4 DEF Interpolate
  <2>2. /\ u - 1 \in 1 .. Len(points) /\ u \in 1 .. Len(points)
        /\ At(points[u - 1]) < t /\ t <= At(points[u])
    BY <1>1, <1>4, LowerIsBelow
  <2> HIDE DEF u
  <2>3. /\ points[u - 1].speed <= points[u].speed =>
             points[u - 1].speed <= v /\ v <= points[u].speed
        /\ points[u].speed <= points[u - 1].speed =>
             points[u].speed <= v /\ v <= points[u - 1].speed
    BY <1>1, <2>2, BetweenWithin
  <2>4. points[u - 1].speed <= points[u].speed \/ points[u].speed <= points[u - 1].speed
    BY <1>1, <2>2
  <2> HIDE DEF v
  <2>q. QED BY <2>1, <2>2, <2>3, <2>4
<1>q. QED BY <1>2, <1>3, <1>4

LEMMA InterpolateInt ==
  ASSUME NEW points \in Table, NEW t \in Int
  PROVE  Interpolate(points, t) \in Int
<1>1. CASE points = << >> BY <1>1 DEF Interpolate
<1>2. CASE points # << >>
  <2>1. /\ Len(points) \in Nat /\ Len(points) # 0
        /\ \A i \in 1 .. Len(points) : points[i] \in Point /\ points[i].speed \in Nat
        /\ At(points[1]) \in Nat /\ At(points[Len(points)]) \in Nat
    BY <1>2, TablePoints, Degrees
  <2>2. CASE Len(points) = 1 \/ t <= At(points[1]) BY <1>2, <2>1, <2>2 DEF Interpolate
  <2>3. CASE ~ (Len(points) = 1 \/ t <= At(points[1])) /\ t >= At(points[Len(points)])
    BY <1>2, <2>1, <2>3 DEF Interpolate
  <2>4. CASE ~ (Len(points) = 1 \/ t <= At(points[1])) /\ ~ (t >= At(points[Len(points)]))
    <3> DEFINE u == Upper(points, t)
    <3>1. Interpolate(points, t) = Between(points[u - 1], points[u], t)
      BY <1>2, <2>4 DEF Interpolate
    <3>2. /\ u - 1 \in 1 .. Len(points) /\ u \in 1 .. Len(points)
          /\ At(points[u - 1]) < t /\ t <= At(points[u])
      BY <2>1, <2>4, LowerIsBelow
    <3> HIDE DEF u
    <3>3. Between(points[u - 1], points[u], t) \in Int BY <2>1, <3>2, BetweenWithin
    <3>q. QED BY <3>1, <3>3
  <2>q. QED BY <2>2, <2>3, <2>4
<1>q. QED BY <1>1, <1>2

-----------------------------------------------------------------------------
(* The whole curve *)

LEMMA WarmerPoint ==
  ASSUME NEW p \in Point, NEW q \in Point, p.temp < q.temp
  PROVE  At(p) < At(q)
<1> DEFINE a == p.temp
           b == q.temp
<1>1. a \in Nat /\ b \in Nat /\ a < b BY DEF Point, Byte
<1> HIDE DEF a, b
<1>2. Unit \in Nat \ {0} BY UnitAssumption
<1>3. a * Unit < b * Unit BY <1>1, <1>2
<1>q. QED BY <1>3 DEF At, a, b

(* The curve goes through every point of a table whose temperatures rise. *)
LEMMA InterpolateAtPoint ==
  ASSUME NEW points \in Table, StrictlySorted(points), NEW i \in 1 .. Len(points)
  PROVE  Interpolate(points, At(points[i])) = points[i].speed
<1> DEFINE n == Len(points)
           t == At(points[i])
<1>1. n \in Nat /\ points # << >> BY TablePoints
<1>2. \A j \in 1 .. n : points[j] \in Point /\ At(points[j]) \in Nat BY TablePoints
<1>3. \A j, k \in 1 .. n : j < k => At(points[j]) < At(points[k])
  BY <1>2, WarmerPoint DEF StrictlySorted
<1>4. t \in Nat /\ 1 \in 1 .. n /\ n \in 1 .. n BY <1>1, <1>2
<1>5. CASE i = 1
  <2>1. t <= At(points[1]) BY <1>4, <1>5
  <2>q. QED BY <1>1, <1>5, <2>1 DEF Interpolate
<1>6. CASE i # 1 /\ i = n
  <2>1. At(points[1]) < t /\ n # 1 BY <1>3, <1>4, <1>6
  <2>2. ~ (t <= At(points[1])) /\ t >= At(points[n]) BY <1>2, <1>4, <1>6, <2>1
  <2>q. QED BY <1>1, <1>6, <2>1, <2>2 DEF Interpolate
<1>7. CASE i # 1 /\ i # n
  <2>1. /\ 1 < i /\ i < n /\ n > 1
        /\ At(points[1]) < t /\ t < At(points[n])
    BY <1>1, <1>3, <1>4, <1>7
  <2>2. ~ (t <= At(points[1])) /\ ~ (t >= At(points[n])) /\ n # 1
    BY <1>2, <1>4, <2>1
  <2> DEFINE u == Upper(points, t)
  <2>3. u \in 2 .. n /\ IsUpper(points, t, u)
    <3>1. t \in Int /\ t <= At(points[n]) BY <1>2, <1>4, <2>1
    <3>q. QED BY <2>1, <3>1, UpperExists
  <2>4. Interpolate(points, t) = Between(points[u - 1], points[u], t)
    BY <1>1, <2>2 DEF Interpolate
  <2> HIDE DEF u
  <2>5. u = i
    <3>1. CASE i < u
      <4>1. i \in 2 .. u - 1 BY <2>1, <2>3, <3>1
      <4>2. t < t BY <2>3, <4>1 DEF IsUpper
      <4>q. QED BY <1>4, <4>2
    <3>2. CASE u < i
      <4>1. u \in 1 .. n BY <1>1, <2>3
      <4>2. At(points[u]) < t /\ t <= At(points[u])
        BY <1>3, <2>3, <3>2, <4>1 DEF IsUpper
      <4>q. QED BY <1>2, <1>4, <4>1, <4>2
    <3>q. QED BY <1>1, <2>3, <3>1, <3>2
  <2>6. i - 1 \in 1 .. n /\ i - 1 < i BY <2>1, <1>1
  <2>7. Between(points[i - 1], points[i], t) = points[i].speed
    BY <1>2, <1>3, <2>6, BetweenAtEnd
  <2>q. QED BY <2>4, <2>5, <2>7
<1>q. QED BY <1>5, <1>6, <1>7

(* The curve of a table whose speeds rise rises with the reading. *)
LEMMA InterpolateRises ==
  ASSUME NEW points \in Table, SpeedsRise(points),
         NEW t \in Int, NEW u \in Int, t <= u
  PROVE  Interpolate(points, t) <= Interpolate(points, u)
<1> DEFINE n == Len(points)
           S(i) == points[i].speed
           at(x) == Interpolate(points, x)
<1>1. CASE points = << >> BY <1>1 DEF Interpolate
<1>2. CASE points # << >>
  <2>1. /\ n \in Nat /\ n # 0 /\ 1 \in 1 .. n /\ n \in 1 .. n
        /\ \A i \in 1 .. n : points[i] \in Point /\ S(i) \in Nat /\ At(points[i]) \in Nat
    BY <1>2, TablePoints, Degrees
  <2>2. \A i, j \in 1 .. n : i <= j => S(i) <= S(j)
    <3>1. SUFFICES ASSUME NEW i \in 1 .. n, NEW j \in 1 .. n, i <= j PROVE S(i) <= S(j)
      OBVIOUS
    <3>2. CASE i = j BY <2>1, <3>2
    <3>3. CASE i < j BY <3>3 DEF SpeedsRise
    <3>q. QED BY <2>1, <3>1, <3>2, <3>3
  <2>3. at(t) \in Int /\ at(u) \in Int BY InterpolateInt
  <2>4. S(1) <= at(u) /\ at(t) <= S(n)
    <3>1. PICK i, j \in 1 .. n : S(i) <= at(u) /\ at(u) <= S(j) BY <1>2, InterpolateWithin
    <3>2. PICK k, l \in 1 .. n : S(k) <= at(t) /\ at(t) <= S(l) BY <1>2, InterpolateWithin
    <3>3. S(1) <= S(i) /\ S(l) <= S(n) /\ S(1) \in Nat /\ S(i) \in Nat
          /\ S(l) \in Nat /\ S(n) \in Nat
      BY <2>1, <2>2
    <3> HIDE DEF S, at
    <3>q. QED BY <2>3, <3>1, <3>2, <3>3
  <2>5. CASE n = 1 \/ t <= At(points[1])
    <3>1. at(t) = S(1) BY <1>2, <2>5 DEF Interpolate
    <3> HIDE DEF S, at
    <3>2. at(t) <= at(u) BY <2>4, <3>1
    <3>q. QED BY <3>2 DEF at
  <2>6. CASE n # 1 /\ ~ (t <= At(points[1])) /\ u >= At(points[n])
    <3>1. ~ (u <= At(points[1])) BY <2>1, <2>6
    <3>2. at(u) = S(n) BY <1>2, <2>6, <3>1 DEF Interpolate
    <3> HIDE DEF S, at
    <3>3. at(t) <= at(u) BY <2>4, <3>2
    <3>q. QED BY <3>3 DEF at
  <2>7. CASE n # 1 /\ ~ (t <= At(points[1])) /\ ~ (u >= At(points[n]))
    <3> DEFINE k == Upper(points, t)
               l == Upper(points, u)
    <3>1. /\ n > 1 /\ At(points[1]) < t /\ At(points[1]) < u
          /\ t <= At(points[n]) /\ u <= At(points[n])
          /\ ~ (u <= At(points[1])) /\ ~ (t >= At(points[n]))
      BY <2>1, <2>7
    <3>2. /\ at(t) = Between(points[k - 1], points[k], t)
          /\ at(u) = Between(points[l - 1], points[l], u)
      BY <1>2, <2>7, <3>1 DEF Interpolate
    <3>3. /\ k \in 2 .. n /\ k - 1 \in 1 .. n /\ k \in 1 .. n
          /\ At(points[k - 1]) < t /\ t <= At(points[k])
      BY <3>1, LowerIsBelow
    <3>4. /\ l \in 2 .. n /\ l - 1 \in 1 .. n /\ l \in 1 .. n
          /\ At(points[l - 1]) < u /\ u <= At(points[l])
      BY <3>1, LowerIsBelow
    <3>5. IsUpper(points, t, k) BY <3>1, UpperExists
    <3> HIDE DEF k, l, at
    <3>6. ~ (l < k)
      <4>1. SUFFICES ASSUME l < k PROVE FALSE OBVIOUS
      <4>2. l \in 2 .. k - 1 BY <2>1, <3>3, <3>4, <4>1
      <4>3. At(points[l]) < t BY <3>5, <4>2 DEF IsUpper
      <4>q. QED BY <2>1, <3>4, <4>3
    <3>7. /\ points[k - 1] \in Point /\ points[k] \in Point
          /\ points[l - 1] \in Point /\ points[l] \in Point
      BY <2>1, <3>3, <3>4
    <3>8. points[k - 1].speed <= points[k].speed /\ points[l - 1].speed <= points[l].speed
      <4>1. k - 1 <= k /\ l - 1 <= l BY <3>3, <3>4
      <4>2. S(k - 1) <= S(k) /\ S(l - 1) <= S(l) BY <2>2, <3>3, <3>4, <4>1
      <4>q. QED BY <4>2
    <3>9. CASE k = l
      <4>1. Between(points[k - 1], points[k], t) <= Between(points[k - 1], points[k], u)
        BY <3>3, <3>4, <3>7, <3>8, <3>9, BetweenRises
      <4>q. QED BY <3>2, <3>9, <4>1 DEF at
    <3>10. CASE k < l
      <4>1. at(t) <= S(k) BY <3>2, <3>3, <3>7, <3>8, BetweenWithin
      <4>2. S(l - 1) <= at(u) BY <3>2, <3>4, <3>7, <3>8, BetweenWithin
      <4>3. k <= l - 1 BY <3>3, <3>4, <3>10
      <4>4. S(k) <= S(l - 1) /\ S(k) \in Nat /\ S(l - 1) \in Nat
        BY <2>1, <2>2, <3>3, <3>4, <4>3
      <4> HIDE DEF S
      <4>5. at(t) <= at(u) BY <2>3, <4>1, <4>2, <4>4
      <4>q. QED BY <4>5 DEF at
    <3>q. QED BY <3>3, <3>4, <3>6, <3>9, <3>10
  <2>q. QED BY <2>5, <2>6, <2>7
<1>q. QED BY <1>1, <1>2

-----------------------------------------------------------------------------
(* The sweep *)

SweepOK == table \in Table /\ reading \in Int

LEMMA SweepInv == Spec => []SweepOK
<1>1. Init => SweepOK
  <2>1. SUFFICES ASSUME Init PROVE SweepOK OBVIOUS
  <2>2. PICK n \in 0 .. MaxPoints : table \in [1 .. n -> SomePoint] BY <2>1 DEF Init
  <2>3. n \in Nat BY SweepAssumption
  <2>4. table \in Seq(SomePoint) BY <2>2, <2>3
  <2>5. SomePoint \subseteq Point BY SweepAssumption DEF SomePoint, Point
  <2>q. QED BY <2>1, <2>4, <2>5, SweepAssumption DEF Init, SweepOK, Table
<1>2. SweepOK /\ [Warm]_vars => SweepOK' BY DEF SweepOK, Warm, vars
<1>q. QED BY <1>1, <1>2, PTL DEF Spec

(* No table, in whatever order its points are, makes a fan slower than its slowest
   or faster than its fastest point (WithinTable). *)
THEOREM NeverOutsideTheTable == Spec => []WithinTable
<1>1. SweepOK => WithinTable
  <2>1. SUFFICES ASSUME SweepOK, table # << >> PROVE WithinTable BY DEF WithinTable
  <2>2. PICK i, j \in 1 .. Len(table) :
          /\ table[i].speed <= Interpolate(table, reading)
          /\ Interpolate(table, reading) <= table[j].speed
    BY <2>1, InterpolateWithin DEF SweepOK
  <2>3. /\ table[j].speed \in Int /\ Interpolate(table, reading) \in Int
    <3>1. table[j] \in Point BY <2>1, TablePoints DEF SweepOK
    <3>2. table[j].speed \in Int BY <3>1, Degrees
    <3>3. Interpolate(table, reading) \in Int BY <2>1, InterpolateInt DEF SweepOK
    <3>q. QED BY <3>2, <3>3
  <2>4. table[j].speed >= Interpolate(table, reading) BY <2>2, <2>3
  <2>q. QED BY <2>2, <2>4 DEF WithinTable
<1>q. QED BY <1>1, SweepInv, PTL

(* The curve of a table with distinct temperatures in order goes through its
   points (ThroughPoints). *)
THEOREM GoesThroughPoints == Spec => []ThroughPoints
<1>1. SweepOK => ThroughPoints
  BY InterpolateAtPoint DEF SweepOK, ThroughPoints
<1>q. QED BY <1>1, SweepInv, PTL

(* The fan of a table whose speeds rise never gets slower as the CPU warms up
   (NeverSlowerWhenWarmer). *)
THEOREM NeverSlower == Spec => NeverSlowerWhenWarmer
<1>1. SweepOK /\ [Warm]_vars =>
        [SpeedsRise(table)
           => Interpolate(table, reading) <= Interpolate(table', reading')]_vars
  <2>1. SUFFICES ASSUME SweepOK, Warm, SpeedsRise(table)
                 PROVE  Interpolate(table, reading) <= Interpolate(table', reading')
    OBVIOUS
  <2>2. table' = table /\ reading' \in Int /\ reading <= reading'
    BY <2>1 DEF Warm, SweepOK
  <2>q. QED BY <2>1, <2>2, InterpolateRises DEF SweepOK
<1>q. QED BY <1>1, SweepInv, PTL DEF Spec, NeverSlowerWhenWarmer
=============================================================================
