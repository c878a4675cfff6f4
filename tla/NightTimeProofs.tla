-------------------------- MODULE NightTimeProofs --------------------------
(***************************************************************************)
(* The night time of a session, which a loop adds up day by day, is exact  *)
(* for a day of any length, any window and a session of any duration that  *)
(* MAX_NIGHT_WINDOW_DAYS covers. Induction is over sets of numbers: a set  *)
(* of naturals that is not empty has a least element.                      *)
(***************************************************************************)
EXTENDS NightTime, WellFoundedInduction, FiniteSetTheorems, TLAPS

-----------------------------------------------------------------------------
(* Induction.                                                              *)

\* A set of naturals that is not empty has a least element.
LEMMA LeastNat ==
  ASSUME NEW T, T \subseteq Nat, T # {}
  PROVE  \E m \in T : \A k \in T : m <= k
<1>1. PICK R : R = OpToRel(<, Nat)
  OBVIOUS
<1>2. IsWellFoundedOn(R, Nat)
  BY <1>1, NatLessThanWellFounded
<1>3. \A x, y \in Nat : <<y, x>> \in R <=> y < x
  BY <1>1 DEF OpToRel
<1>4. PICK x \in T : \A y \in T : ~ (<<y, x>> \in R)
  BY <1>2, WFMin
<1>5. ASSUME NEW y \in T
      PROVE  x <= y
  <2>1. x \in Nat /\ y \in Nat
    OBVIOUS
  <2>2. ~ (<<y, x>> \in R)
    BY <1>4
  <2>3. ~ (y < x)
    BY <2>1, <2>2, <1>3
  <2>4. QED
    BY <2>1, <2>3
<1>6. QED
  BY <1>5

\* A set of naturals that has 0, and with each number the next, has them all.
LEMMA SetInduction ==
  ASSUME NEW T, T \subseteq Nat, 0 \in T, \A n \in T : n + 1 \in T
  PROVE  \A n \in Nat : n \in T
<1>1. SUFFICES ASSUME Nat \ T # {}
               PROVE  FALSE
  OBVIOUS
<1>2. PICK m \in Nat \ T : \A k \in Nat \ T : m <= k
  BY <1>1, LeastNat
<1>3. m - 1 \in T
  BY <1>2
<1>4. QED
  BY <1>2, <1>3

-----------------------------------------------------------------------------
(* The running total of the loop.                                          *)

\* The totals of the first n passes.
Parts(added, n) ==
  {h \in [0 .. n -> Int] :
     h[0] = 0 /\ \A i \in 1 .. n : h[i] = h[i - 1] + added[i - 1]}

\* There are totals for any number of passes.
LEMMA PartsExist ==
  ASSUME NEW added \in [Nat -> Int], NEW n \in Nat
  PROVE  Parts(added, n) # {}
<1> DEFINE T == {k \in Nat : Parts(added, k) # {}}
<1>1. 0 \in T
  <2> DEFINE h == [i \in 0 .. 0 |-> 0]
  <2>1. h \in Parts(added, 0)
    BY DEF Parts
  <2>2. QED
    BY <2>1
<1>2. ASSUME NEW k \in T
      PROVE  k + 1 \in T
  <2>1. PICK h : h \in Parts(added, k)
    OBVIOUS
  <2> DEFINE g == [i \in 0 .. k + 1 |-> IF i = k + 1 THEN h[k] + added[k] ELSE h[i]]
  <2>2. h \in [0 .. k -> Int] /\ h[0] = 0
    BY <2>1 DEF Parts
  <2>3. g \in [0 .. k + 1 -> Int]
    BY <2>2
  <2>4. g[0] = 0
    BY <2>2
  <2>5. ASSUME NEW i \in 1 .. k + 1
        PROVE  g[i] = g[i - 1] + added[i - 1]
    <3>1. CASE i = k + 1
      BY <3>1
    <3>2. CASE i # k + 1
      <4>1. i \in 1 .. k /\ i \in 0 .. k + 1 /\ i - 1 \in 0 .. k + 1 /\ i - 1 # k + 1
        BY <3>2
      <4>2. h[i] = h[i - 1] + added[i - 1]
        BY <2>1, <4>1 DEF Parts
      <4>3. QED
        BY <4>1, <4>2, <3>2
    <3>3. QED
      BY <3>1, <3>2
  <2> HIDE DEF g
  <2>6. g \in Parts(added, k + 1)
    BY <2>3, <2>4, <2>5 DEF Parts
  <2>7. QED
    BY <2>6
<1> HIDE DEF T
<1>3. T \subseteq Nat
  BY DEF T
<1>4. n \in T
  BY <1>1, <1>2, <1>3, SetInduction
<1>5. QED
  BY <1>4 DEF T

\* They are the same however many passes follow.
LEMMA PartsAgree ==
  ASSUME NEW added \in [Nat -> Int], NEW m \in Nat, NEW n \in Nat,
         NEW g \in Parts(added, m), NEW h \in Parts(added, n),
         NEW i \in Nat, i <= m, i <= n
  PROVE  g[i] = h[i]
<1> DEFINE T == {k \in Nat : k <= m /\ k <= n => g[k] = h[k]}
<1>1. 0 \in T
  BY DEF Parts
<1>2. ASSUME NEW k \in T
      PROVE  k + 1 \in T
  <2>1. SUFFICES ASSUME k + 1 <= m, k + 1 <= n
                 PROVE  g[k + 1] = h[k + 1]
    OBVIOUS
  <2>2. k + 1 \in 1 .. m /\ k + 1 \in 1 .. n
    BY <2>1
  <2>3. g[k] = h[k]
    BY <2>1
  <2>4. g[k + 1] = g[k + 1 - 1] + added[k + 1 - 1]
    BY <2>2 DEF Parts
  <2>5. h[k + 1] = h[k + 1 - 1] + added[k + 1 - 1]
    BY <2>2 DEF Parts
  <2>6. QED
    BY <2>3, <2>4, <2>5
<1> HIDE DEF T
<1>3. T \subseteq Nat
  BY DEF T
<1>4. i \in T
  BY <1>1, <1>2, <1>3, SetInduction
<1>5. QED
  BY <1>4 DEF T

\* So the recursive definition defines a function.
LEMMA TotalDefined ==
  ASSUME NEW added \in [Nat -> Int]
  PROVE  Total(added) = [i \in Nat |-> IF i = 0 THEN 0
                                       ELSE Total(added)[i - 1] + added[i - 1]]
<1> DEFINE some(n) == CHOOSE h : h \in Parts(added, n)
           f == [n \in Nat |-> some(n)[n]]
           next(s) == [i \in Nat |-> IF i = 0 THEN 0 ELSE s[i - 1] + added[i - 1]]
<1>1. ASSUME NEW n \in Nat
      PROVE  some(n) \in Parts(added, n)
  BY PartsExist
<1> HIDE DEF some
<1>2. ASSUME NEW n \in Nat
      PROVE  f[n] = next(f)[n]
  <2>1. CASE n = 0
    BY <2>1, <1>1 DEF Parts
  <2>2. CASE n # 0
    <3>1. n - 1 \in Nat /\ n \in 1 .. n
      BY <2>2
    <3>2. some(n)[n] = some(n)[n - 1] + added[n - 1]
      BY <1>1, <3>1 DEF Parts
    <3>3. some(n)[n - 1] = some(n - 1)[n - 1]
      BY <1>1, <3>1, PartsAgree
    <3>4. QED
      BY <2>2, <3>1, <3>2, <3>3
  <2>3. QED
    BY <2>1, <2>2
<1>3. f = next(f)
  BY <1>2
<1>4. \E s : s = next(s)
  BY <1>3
<1> HIDE DEF f
<1>5. Total(added) = CHOOSE s : s = next(s)
  BY DEF Total
<1>6. Total(added) = next(Total(added))
  BY <1>4, <1>5
<1>7. QED
  BY <1>6

LEMMA TotalType ==
  ASSUME NEW added \in [Nat -> Int]
  PROVE  /\ \A n \in Nat : Total(added)[n] \in Int
         /\ Total(added)[0] = 0
         /\ \A n \in Nat : Total(added)[n + 1] = Total(added)[n] + added[n]
<1> DEFINE T == {n \in Nat : Total(added)[n] \in Int}
<1>1. Total(added)[0] = 0
  BY TotalDefined
<1>2. ASSUME NEW n \in Nat
      PROVE  Total(added)[n + 1] = Total(added)[n] + added[n]
  <2>1. n + 1 \in Nat /\ n + 1 # 0 /\ n + 1 - 1 = n
    OBVIOUS
  <2>2. QED
    BY <2>1, TotalDefined
<1>3. 0 \in T
  BY <1>1
<1>4. ASSUME NEW n \in T
      PROVE  n + 1 \in T
  BY <1>2
<1> HIDE DEF T
<1>5. T \subseteq Nat
  BY DEF T
<1>6. \A n \in Nat : n \in T
  BY <1>3, <1>4, <1>5, SetInduction
<1>7. QED
  BY <1>1, <1>2, <1>6 DEF T

\* Days that add nothing leave the total as it is.
LEMMA TotalOfRest ==
  ASSUME NEW added \in [Nat -> Int], NEW m \in Nat,
         \A i \in Nat : i >= m => added[i] = 0
  PROVE  \A n \in Nat : n >= m => Total(added)[n] = Total(added)[m]
<1> DEFINE T == {n \in Nat : n >= m => Total(added)[n] = Total(added)[m]}
<1>1. 0 \in T
  OBVIOUS
<1>2. ASSUME NEW n \in T
      PROVE  n + 1 \in T
  <2>1. CASE n >= m
    BY <2>1, TotalType
  <2>2. CASE ~ (n >= m)
    <3>1. n + 1 >= m => n + 1 = m
      BY <2>2
    <3>2. QED
      BY <3>1
  <2>3. QED
    BY <2>1, <2>2
<1> HIDE DEF T
<1>3. T \subseteq Nat
  BY DEF T
<1>4. \A n \in Nat : n \in T
  BY <1>1, <1>2, <1>3, SetInduction
<1>5. QED
  BY <1>4 DEF T

\* What one day more of one unit does to the total
LEMMA TotalOfBump ==
  ASSUME NEW added \in [Nat -> Int], NEW more \in [Nat -> Int], NEW j \in Nat,
         more[j] = added[j] + 1,
         \A i \in Nat : i # j => more[i] = added[i]
  PROVE  \A n \in Nat : n > j => Total(more)[n] = Total(added)[n] + 1
<1> DEFINE T == {n \in Nat : Total(more)[n] = Total(added)[n] + (IF n > j THEN 1 ELSE 0)}
<1>1. 0 \in T
  BY TotalType
<1>2. ASSUME NEW n \in T
      PROVE  n + 1 \in T
  <2>1. /\ Total(more)[n + 1] = Total(more)[n] + more[n]
        /\ Total(added)[n + 1] = Total(added)[n] + added[n]
        /\ Total(more)[n] \in Int /\ Total(added)[n] \in Int
        /\ more[n] \in Int /\ added[n] \in Int
    BY TotalType
  <2>2. CASE n = j
    BY <2>1, <2>2
  <2>3. CASE n # j
    BY <2>1, <2>3
  <2>4. QED
    BY <2>2, <2>3
<1> HIDE DEF T
<1>3. T \subseteq Nat
  BY DEF T
<1>4. \A n \in Nat : n \in T
  BY <1>1, <1>2, <1>3, SetInduction
<1>5. QED
  BY <1>4 DEF T

-----------------------------------------------------------------------------
(* Division.                                                               *)

LEMMA DivMod ==
  ASSUME NEW x \in Int, NEW d \in Nat \ {0}
  PROVE  /\ x \div d \in Int /\ x % d \in 0 .. d - 1
         /\ x = (x \div d) * d + (x % d)
OBVIOUS

\* A day begins when the days before it have ended.
LEMMA DaysApart ==
  ASSUME NEW i \in Int, NEW k \in Int, NEW d \in Nat, i < k
  PROVE  i * d + d <= k * d
<1>1. (k - i - 1) * d >= 0
  OBVIOUS
<1>2. (k - i - 1) * d = k * d - i * d - d
  OBVIOUS
<1>3. i * d \in Int /\ k * d \in Int
  OBVIOUS
<1>4. QED
  BY <1>1, <1>2, <1>3

LEMMA DayOf ==
  ASSUME NEW x \in Int, NEW d \in Nat \ {0}, NEW j \in Int,
         j * d <= x, x < j * d + d
  PROVE  x \div d = j
<1>1. PICK q : q = x \div d
  OBVIOUS
<1>2. PICK r : r = x % d
  OBVIOUS
<1>3. /\ q \in Int /\ r \in 0 .. d - 1
      /\ x = q * d + r
  BY <1>1, <1>2, DivMod
<1>4. ~ (q < j)
  BY <1>3, DaysApart
<1>5. ~ (j < q)
  BY <1>3, DaysApart
<1>6. QED
  BY <1>1, <1>3, <1>4, <1>5

-----------------------------------------------------------------------------
(* One unit of time more.                                                  *)

\* The unit that begins at the hour is in the window.
InWindow(hour, fromHour, toHour) ==
  IF fromHour <= toHour THEN fromHour <= hour /\ hour < toHour
  ELSE fromHour <= hour \/ hour < toHour

\* It is in the window that begins on the day dayStart.
Hits(t, dayStart, fromHour, toHour) ==
  /\ fromHour <= t - dayStart
  /\ t - dayStart < (IF fromHour > toHour THEN toHour + Day ELSE toHour)

\* The last day looked at on which the unit t can be, counted from the first
LastDay(startTime, t) == (t \div Day) - (startTime \div Day) + 1

LEMMA AddedType ==
  ASSUME NEW s \in Int, NEW e \in Int, NEW from \in 0 .. Day, NEW to \in 0 .. Day
  PROVE  /\ Added(s, e, from, to) \in [Nat -> Int]
         /\ \A i \in Nat : FirstDay(s) + i * Day \in Int
<1>1. FirstDay(s) \in Int
  <2>1. s \div Day \in Int
    BY DivMod, DayIsPositive
  <2>2. QED
    BY <2>1, DayIsPositive DEF FirstDay
<1>2. ASSUME NEW i \in Nat
      PROVE  FirstDay(s) + i * Day \in Int
  BY <1>1, DayIsPositive
<1>3. ASSUME NEW i \in Nat
      PROVE  maxOf(0, Overlap(s, e, FirstDay(s) + i * Day, from, to)) \in Int
  <2>1. PICK d \in Int : d = FirstDay(s) + i * Day
    BY <1>2
  <2>2. QED
    BY <2>1, DayIsPositive DEF maxOf, minOf, Overlap
<1>4. QED
  BY <1>2, <1>3 DEF Added

\* A day adds a unit more just when the unit is in its window.
LEMMA UnitAdds ==
  ASSUME NEW s \in Int, NEW e \in Int, s <= e,
         NEW from \in 0 .. Day, NEW to \in 0 .. Day, from # to, NEW i \in Nat
  PROVE  Added(s, e + 1, from, to)[i] = Added(s, e, from, to)[i]
           + (IF Hits(e, FirstDay(s) + i * Day, from, to) THEN 1 ELSE 0)
<1>1. PICK d \in Int : d = FirstDay(s) + i * Day
  BY AddedType
<1>2. maxOf(0, Overlap(s, e + 1, d, from, to)) = maxOf(0, Overlap(s, e, d, from, to))
        + (IF Hits(e, d, from, to) THEN 1 ELSE 0)
  BY DayIsPositive DEF maxOf, minOf, Overlap, Hits
<1>3. QED
  BY <1>1, <1>2 DEF Added

\* Days that begin after the end add nothing.
LEMMA LaterDaysAddNothing ==
  ASSUME NEW s \in Int, NEW e \in Int,
         NEW from \in 0 .. Day, NEW to \in 0 .. Day, NEW i \in Nat,
         e <= FirstDay(s) + i * Day
  PROVE  Added(s, e, from, to)[i] = 0
<1>1. PICK d \in Int : d = FirstDay(s) + i * Day
  BY AddedType
<1>2. maxOf(0, Overlap(s, e, d, from, to)) = 0
  BY <1>1, DayIsPositive DEF maxOf, minOf, Overlap
<1>3. QED
  BY <1>1, <1>2 DEF Added

\* Where the unit t lies, counted from the first day looked at
LEMMA LastDayFacts ==
  ASSUME NEW s \in Int, NEW t \in Int, s <= t
  PROVE  /\ LastDay(s, t) \in Nat \ {0}
         /\ t % Day \in 0 .. Day - 1
         /\ t = FirstDay(s) + LastDay(s, t) * Day + (t % Day)
         /\ (t - FirstDay(s)) \div Day = LastDay(s, t)
         /\ FirstDay(s) \in Int /\ FirstDay(s) + 2 * Day > s
<1>1. PICK q : q = s \div Day
  OBVIOUS
<1>2. PICK p : p = t \div Day
  OBVIOUS
<1>3. PICK h : h = t % Day
  OBVIOUS
<1>4. /\ q \in Int /\ s % Day \in 0 .. Day - 1
      /\ s = q * Day + (s % Day)
  BY <1>1, DivMod, DayIsPositive
<1>5. /\ p \in Int /\ h \in 0 .. Day - 1
      /\ t = p * Day + h
  BY <1>2, <1>3, DivMod, DayIsPositive
<1>6. ~ (p < q)
  BY <1>4, <1>5, DaysApart, DayIsPositive
<1>7. LastDay(s, t) = p - q + 1 /\ FirstDay(s) = q * Day - Day
  BY <1>1, <1>2 DEF LastDay, FirstDay
<1>8. PICK j : j = p - q + 1
  OBVIOUS
<1>9. j \in Nat \ {0}
  BY <1>4, <1>5, <1>6, <1>8
<1>10. PICK a \in Int, b \in Int, c \in Int :
         a = q * Day /\ b = p * Day /\ c = j * Day /\ c = b - a + Day
  <2>1. q * Day \in Int /\ p * Day \in Int /\ j * Day \in Int
    BY <1>4, <1>5, <1>9, DayIsPositive
  <2>2. j * Day = p * Day - q * Day + Day
    BY <1>4, <1>5, <1>8, DayIsPositive
  <2>3. QED
    BY <2>1, <2>2
<1>11. PICK f \in Int : f = FirstDay(s) /\ f = a - Day
  BY <1>7, <1>10, DayIsPositive
<1>12. t = f + c + h
  BY <1>5, <1>10, <1>11, DayIsPositive
<1>13. f + 2 * Day > s
  BY <1>4, <1>10, <1>11, DayIsPositive
<1>14. (t - f) \div Day = j
  <2>1. PICK y \in Int : y = t - f
    BY <1>11
  <2>2. c <= y /\ y < c + Day
    BY <2>1, <1>5, <1>10, <1>11, <1>12, DayIsPositive
  <2>3. j * Day <= y /\ y < j * Day + Day
    BY <2>2, <1>10
  <2>4. y \div Day = j
    BY <2>1, <2>3, <1>9, DayOf, DayIsPositive
  <2>5. QED
    BY <2>1, <2>4
<1>15. QED
  BY <1>3, <1>5, <1>7, <1>8, <1>9, <1>10, <1>11, <1>12, <1>13, <1>14

\* A unit in the window is in that of one day, and no other unit is in any.
LEMMA OneDayHits ==
  ASSUME NEW s \in Int, NEW t \in Int, s <= t,
         NEW from \in 0 .. Day, NEW to \in 0 .. Day, from # to
  PROVE  IF InWindow(t % Day, from, to)
         THEN \E j \in {LastDay(s, t) - 1, LastDay(s, t)} :
                \A i \in Nat : Hits(t, FirstDay(s) + i * Day, from, to) <=> i = j
         ELSE \A i \in Nat : ~ Hits(t, FirstDay(s) + i * Day, from, to)
<1>1. PICK n : n = LastDay(s, t)
  OBVIOUS
<1>2. PICK h : h = t % Day
  OBVIOUS
<1>3. PICK f : f = FirstDay(s)
  OBVIOUS
<1>4. /\ n \in Nat \ {0} /\ h \in 0 .. Day - 1 /\ f \in Int
      /\ t = f + n * Day + h
  BY <1>1, <1>2, <1>3, LastDayFacts
<1>5. n * Day \in Int
  BY <1>4, DayIsPositive
<1>6. ASSUME NEW i \in Nat
      PROVE  /\ i = n => t - (f + i * Day) = h
             /\ i = n - 1 => t - (f + i * Day) = h + Day
             /\ i < n - 1 => t - (f + i * Day) >= h + 2 * Day
             /\ i > n => t - (f + i * Day) < 0
  <2>1. PICK d \in Int : d = i * Day
    BY DayIsPositive
  <2>2. CASE i = n
    BY <2>1, <2>2, <1>4, <1>5
  <2>3. CASE i = n - 1
    <3>1. d + Day = n * Day
      BY <2>1, <2>3, <1>4, DayIsPositive
    <3>2. QED
      BY <2>1, <2>3, <3>1, <1>4, <1>5, DayIsPositive
  <2>4. CASE i < n - 1
    <3>1. PICK k \in Int : k = n - 1
      BY <1>4
    <3>2. d + Day <= k * Day
      BY <2>1, <2>4, <3>1, DaysApart, DayIsPositive
    <3>3. k * Day + Day = n * Day /\ k * Day \in Int
      BY <3>1, <1>4, DayIsPositive
    <3>4. QED
      BY <2>1, <2>4, <3>2, <3>3, <1>4, <1>5, DayIsPositive
  <2>5. CASE i > n
    <3>1. n * Day + Day <= d
      BY <2>1, <2>5, <1>4, DaysApart, DayIsPositive
    <3>2. QED
      BY <2>1, <2>5, <3>1, <1>4, <1>5, DayIsPositive
  <2>6. QED
    BY <2>2, <2>3, <2>4, <2>5, <1>4
<1>7. ASSUME NEW i \in Nat
      PROVE  Hits(t, f + i * Day, from, to) <=>
               \/ i = n /\ from <= h /\ (from <= to => h < to)
               \/ i = n - 1 /\ from > to /\ h < to
  <2>1. PICK d \in Int : d = f + i * Day
    BY <1>4, DayIsPositive
  <2>2. PICK x \in Int : x = t - d
    BY <2>1, <1>4, <1>5
  <2>3. /\ i = n => x = h
        /\ i = n - 1 => x = h + Day
        /\ i < n - 1 => x >= h + 2 * Day
        /\ i > n => x < 0
    BY <2>1, <2>2, <1>6
  <2>4. Hits(t, d, from, to) <=> from <= x /\ x < (IF from > to THEN to + Day ELSE to)
    BY <2>2 DEF Hits
  <2>5. CASE i = n
    BY <2>1, <2>3, <2>4, <2>5, <1>4, DayIsPositive
  <2>6. CASE i = n - 1
    BY <2>1, <2>3, <2>4, <2>6, <1>4, DayIsPositive
  <2>7. CASE i < n - 1 \/ i > n
    BY <2>1, <2>3, <2>4, <2>7, <1>4, DayIsPositive
  <2>8. QED
    BY <2>5, <2>6, <2>7, <1>4
<1>8. CASE InWindow(h, from, to) /\ from <= h /\ (from <= to => h < to)
  <2>1. \A i \in Nat : Hits(t, f + i * Day, from, to) <=> i = n
    BY <1>7, <1>8, <1>4
  <2>2. QED
    BY <2>1, <1>1, <1>2, <1>3, <1>8
<1>9. CASE InWindow(h, from, to) /\ ~ (from <= h /\ (from <= to => h < to))
  <2>1. from > to /\ h < to
    BY <1>9, <1>4 DEF InWindow
  <2>2. \A i \in Nat : Hits(t, f + i * Day, from, to) <=> i = n - 1
    BY <1>7, <1>9, <2>1, <1>4
  <2>3. QED
    BY <2>2, <1>1, <1>2, <1>3, <1>9
<1>10. CASE ~ InWindow(h, from, to)
  <2>1. \A i \in Nat : ~ Hits(t, f + i * Day, from, to)
    BY <1>7, <1>10, <1>4 DEF InWindow
  <2>2. QED
    BY <2>1, <1>2, <1>3, <1>10
<1>11. QED
  BY <1>8, <1>9, <1>10

\* The loop takes enough days for the unit t, and for one more, if the bound
\* on the days does.
LEMMA DayCountCovers ==
  ASSUME NEW s \in Int, NEW t \in Int, s <= t, t - s + 2 * Day <= MaxDays * Day
  PROVE  /\ DayCount(s, t) \in Nat /\ DayCount(s, t + 1) \in Nat
         /\ DayCount(s, t) > LastDay(s, t)
         /\ DayCount(s, t + 1) >= DayCount(s, t)
<1> DEFINE n == LastDay(s, t)
           f == FirstDay(s)
           h == t % Day
           c == n * Day
<1>1. /\ n \in Nat \ {0} /\ f \in Int /\ h \in 0 .. Day - 1 /\ c \in Int
      /\ t = f + c + h /\ f + 2 * Day > s
      /\ (t - f) \div Day = n
  <2>1. n \in Nat \ {0}
    BY LastDayFacts
  <2>2. c \in Int
    BY <2>1, DayIsPositive
  <2>3. QED
    BY <2>1, <2>2, LastDayFacts
<1> HIDE DEF f, h
<1>2. PICK m \in Int : m = MaxDays * Day
  BY DurationIsCovered, DayIsPositive
<1>3. c < m
  BY <1>1, <1>2, DayIsPositive
<1>4. n < MaxDays
  <2>1. SUFFICES ASSUME MaxDays <= n
                 PROVE  FALSE
    BY <1>1, DurationIsCovered
  <2>2. CASE MaxDays = n
    BY <2>2, <1>1, <1>2, <1>3
  <2>3. CASE MaxDays < n
    BY <2>3, <1>1, <1>2, <1>3, DaysApart, DurationIsCovered, DayIsPositive
  <2>4. MaxDays \in Nat /\ n \in Nat
    BY <1>1, DurationIsCovered
  <2>5. QED
    BY <2>1, <2>2, <2>3, <2>4
<1>5. ((t + 1) - f) \div Day \in {n, n + 1}
  <2>1. PICK y \in Int : y = (t + 1) - f
    BY <1>1
  <2>2. CASE h < Day - 1
    <3>1. c <= y /\ y < c + Day
      BY <2>1, <2>2, <1>1, DayIsPositive
    <3>2. y \div Day = n
      BY <3>1, <1>1, DayOf, DayIsPositive
    <3>3. QED
      BY <2>1, <3>2
  <2>3. CASE h = Day - 1
    <3>1. (n + 1) * Day = c + Day
      BY <1>1, DayIsPositive
    <3>2. (n + 1) * Day <= y /\ y < (n + 1) * Day + Day
      BY <2>1, <2>3, <3>1, <1>1, DayIsPositive
    <3>3. n + 1 \in Int
      BY <1>1
    <3>4. y \div Day = n + 1
      BY <3>2, <3>3, DayOf, DayIsPositive
    <3>5. QED
      BY <2>1, <3>4
  <2>4. QED
    BY <2>2, <2>3, <1>1, DayIsPositive
<1>6. PICK k \in {n, n + 1} : k = ((t + 1) - f) \div Day
  BY <1>5
<1>7. DayCount(s, t) = minOf(MaxDays, maxOf(1, n + 2))
  BY <1>1 DEF DayCount, f
<1>8. DayCount(s, t + 1) = minOf(MaxDays, maxOf(1, k + 2))
  <2>1. DayCount(s, t + 1) = minOf(MaxDays, maxOf(1, ((t + 1) - f) \div Day + 2))
    BY DEF DayCount, f
  <2>2. QED
    BY <2>1, <1>6
<1>9. QED
  BY <1>1, <1>4, <1>6, <1>7, <1>8, DurationIsCovered DEF minOf, maxOf

\* One unit more makes the night time longer by one just when the unit is in
\* the window.
LEMMA NightTimeStep ==
  ASSUME NEW s \in Int, NEW t \in Int, s <= t, t - s + 2 * Day <= MaxDays * Day,
         NEW from \in 0 .. Day, NEW to \in 0 .. Day, from # to
  PROVE  /\ NightTimeBetween(s, t, from, to) \in Int
         /\ NightTimeBetween(s, t + 1, from, to)
              = NightTimeBetween(s, t, from, to)
                  + (IF InWindow(t % Day, from, to) THEN 1 ELSE 0)
<1> DEFINE f == Added(s, t, from, to)
           g == Added(s, t + 1, from, to)
           k == DayCount(s, t)
           l == DayCount(s, t + 1)
           n == LastDay(s, t)
<1>1. f \in [Nat -> Int] /\ g \in [Nat -> Int]
  <2>1. t + 1 \in Int
    OBVIOUS
  <2>2. f \in [Nat -> Int]
    BY AddedType
  <2>3. g \in [Nat -> Int]
    BY <2>1, AddedType
  <2>4. QED
    BY <2>2, <2>3
<1>2. /\ k \in Nat /\ l \in Nat /\ n \in Nat \ {0}
      /\ k > n /\ l >= k
  BY DayCountCovers, LastDayFacts
<1>3. \A i \in Nat : g[i] = f[i] + (IF Hits(t, FirstDay(s) + i * Day, from, to) THEN 1 ELSE 0)
  BY UnitAdds
<1>4. \A i \in Nat : i >= k => f[i] = 0
  <2>1. SUFFICES ASSUME NEW i \in Nat, i >= k
                 PROVE  f[i] = 0
    OBVIOUS
  <2>2. n * Day + Day <= i * Day
    BY <1>2, <2>1, DaysApart, DayIsPositive
  <2>3. t <= FirstDay(s) + i * Day
    <3>1. PICK a : a = FirstDay(s)
      OBVIOUS
    <3>2. PICK b : b = n * Day
      OBVIOUS
    <3>3. PICK h : h = t % Day
      OBVIOUS
    <3>4. a \in Int /\ h \in 0 .. Day - 1 /\ t = a + b + h
      BY <3>1, <3>2, <3>3, LastDayFacts
    <3>5. b \in Int /\ i * Day \in Int
      BY <3>2, <1>2, <2>1, DayIsPositive
    <3>6. QED
      BY <2>2, <3>1, <3>2, <3>4, <3>5, DayIsPositive
  <2>4. QED
    BY <2>1, <2>3, LaterDaysAddNothing
<1>5. Total(f)[k] \in Int /\ Total(f)[l] = Total(f)[k]
  BY <1>1, <1>2, <1>4, TotalType, TotalOfRest
<1>6. NightTimeBetween(s, t, from, to) = Total(f)[k]
  <2>1. CASE s = t
    <3>1. \A i \in Nat : f[i] = 0
      <4>1. SUFFICES ASSUME NEW i \in Nat
                     PROVE  f[i] = 0
        OBVIOUS
      <4>2. PICK d \in Int : d = FirstDay(s) + i * Day
        BY AddedType
      <4>3. maxOf(0, Overlap(s, t, d, from, to)) = 0
        BY <2>1, DayIsPositive DEF maxOf, minOf, Overlap
      <4>4. QED
        BY <4>2, <4>3 DEF Added
    <3>2. Total(f)[k] = Total(f)[0] /\ Total(f)[0] = 0
      BY <3>1, <1>1, <1>2, TotalOfRest, TotalType
    <3>3. QED
      BY <2>1, <3>2 DEF NightTimeBetween
  <2>2. CASE s < t
    BY <2>2 DEF NightTimeBetween
  <2>3. QED
    BY <2>1, <2>2
<1>7. NightTimeBetween(s, t + 1, from, to) = Total(g)[l]
  BY DEF NightTimeBetween
<1> HIDE DEF f, g, k, l
<1>8. Total(g)[l] = Total(f)[l] + (IF InWindow(t % Day, from, to) THEN 1 ELSE 0)
  <2>1. CASE InWindow(t % Day, from, to)
    <3>1. PICK j \in {n - 1, n} :
            \A i \in Nat : Hits(t, FirstDay(s) + i * Day, from, to) <=> i = j
      BY <2>1, OneDayHits
    <3>2. j \in Nat /\ l > j
      BY <1>2
    <3>3. g[j] = f[j] + 1 /\ \A i \in Nat : i # j => g[i] = f[i]
      BY <1>1, <1>3, <3>1, <3>2
    <3>4. QED
      BY <1>1, <1>2, <2>1, <3>2, <3>3, TotalOfBump
  <2>2. CASE ~ InWindow(t % Day, from, to)
    <3>1. \A i \in Nat : g[i] = f[i]
      BY <1>1, <1>3, <2>2, OneDayHits
    <3>2. g = f
      BY <1>1, <3>1
    <3>3. QED
      BY <1>5, <2>2, <3>2
  <2>3. QED
    BY <2>1, <2>2
<1>9. QED
  BY <1>5, <1>6, <1>7, <1>8

-----------------------------------------------------------------------------
(* The running session.                                                    *)

\* The units of the session so far that are in the window
NightUnits(n) == {t \in begun .. n - 1 : t % Day \in NightHours}

\* By the time of day, a unit is in the window just when it is in some day's.
LEMMA NightHoursAreInWindow ==
  ASSUME NightType, NEW t \in Int
  PROVE  t % Day \in NightHours
           <=> nightFromHour # nightToHour /\ InWindow(t % Day, nightFromHour, nightToHour)
<1>1. PICK h \in 0 .. Day - 1 : h = t % Day
  BY DivMod, DayIsPositive
<1>2. h \in NightHours
        <=> nightFromHour # nightToHour /\ InWindow(h, nightFromHour, nightToHour)
  BY DayIsPositive DEF NightHours, InWindow, NightType
<1>3. QED
  BY <1>1, <1>2

\* A unit more is one more in the window, or none.
LEMMA UnitsStep ==
  ASSUME NightType, NEW n \in Int, begun <= n
  PROVE  /\ Cardinality(NightUnits(n)) \in Nat
         /\ Cardinality(NightUnits(n + 1))
              = Cardinality(NightUnits(n)) + (IF n % Day \in NightHours THEN 1 ELSE 0)
<1>1. begun \in Int /\ n - 1 \in Int
  BY DEF NightType
<1>2. IsFiniteSet(begun .. n - 1)
  BY <1>1, FS_Interval
<1>3. IsFiniteSet(NightUnits(n))
  BY <1>2, FS_Subset DEF NightUnits
<1>4. Cardinality(NightUnits(n)) \in Nat
  BY <1>3, FS_CardinalityType
<1>5. begun .. (n + 1) - 1 = (begun .. n - 1) \cup {n}
  BY <1>1
<1>6. CASE n % Day \in NightHours
  <2>1. NightUnits(n + 1) = NightUnits(n) \cup {n}
    BY <1>5, <1>6 DEF NightUnits
  <2>2. n \notin NightUnits(n)
    BY <1>1 DEF NightUnits
  <2>3. Cardinality(NightUnits(n) \cup {n}) = Cardinality(NightUnits(n)) + 1
    BY <1>3, <2>2, FS_AddElement
  <2>4. QED
    BY <1>4, <1>6, <2>1, <2>3
<1>7. CASE ~ (n % Day \in NightHours)
  <2>1. NightUnits(n + 1) = NightUnits(n)
    BY <1>5, <1>7 DEF NightUnits
  <2>2. QED
    BY <1>4, <1>7, <2>1
<1>8. QED
  BY <1>6, <1>7

\* Before the session has a unit there is no night time.
LEMMA NoUnits ==
  ASSUME NightType, NEW n \in Int, n <= begun
  PROVE  /\ NightTimeBetween(begun, n, nightFromHour, nightToHour) = 0
         /\ Cardinality(NightUnits(n)) = 0
<1>1. NightUnits(n) = {}
  BY DEF NightUnits, NightType
<1>2. QED
  BY <1>1, FS_EmptySet DEF NightTimeBetween

\* The night time up to n counts the units up to n.
UpTo(n) == NightTimeBetween(begun, n, nightFromHour, nightToHour)
             = Cardinality(NightUnits(n))

LEMMA CountStep ==
  ASSUME NightType, NEW n \in Int, begun <= n, n < begun + MaxDuration, UpTo(n)
  PROVE  UpTo(n + 1)
<1>1. begun \in Int /\ nightFromHour \in 0 .. Day /\ nightToHour \in 0 .. Day
  BY DEF NightType
<1>2. CASE nightFromHour = nightToHour
  <2>1. n % Day \notin NightHours
    BY <1>2, NightHoursAreInWindow
  <2>2. Cardinality(NightUnits(n + 1)) = Cardinality(NightUnits(n))
    BY <2>1, UnitsStep
  <2>3. QED
    BY <1>2, <2>2 DEF UpTo, NightTimeBetween
<1>3. CASE nightFromHour # nightToHour
  <2>1. n - begun + 2 * Day <= MaxDays * Day
    <3>1. PICK m : m = MaxDays * Day
      OBVIOUS
    <3>2. m \in Int /\ MaxDuration \in Nat /\ MaxDuration + 3 * Day <= m
      BY <3>1, DurationIsCovered, DayIsPositive
    <3>3. QED
      BY <3>1, <3>2, <1>1, DayIsPositive
  <2>2. n % Day \in NightHours <=> InWindow(n % Day, nightFromHour, nightToHour)
    BY <1>3, NightHoursAreInWindow
  <2>3. NightTimeBetween(begun, n + 1, nightFromHour, nightToHour)
          = NightTimeBetween(begun, n, nightFromHour, nightToHour)
              + (IF InWindow(n % Day, nightFromHour, nightToHour) THEN 1 ELSE 0)
    BY <1>1, <1>3, <2>1, NightTimeStep
  <2>4. QED
    BY <2>2, <2>3, UnitsStep DEF UpTo
<1>4. QED
  BY <1>2, <1>3

\* isInNightWindow says whether this unit is in the window.
LEMMA WindowIsExact ==
  ASSUME NightType
  PROVE  IsInNightWindow(now, nightFromHour, nightToHour) <=> now % Day \in NightHours
<1>1. now \in Int /\ nightFromHour \in 0 .. Day /\ nightToHour \in 0 .. Day
  BY DEF NightType
<1>2. NightTimeBetween(now, now, nightFromHour, nightToHour) = 0
  BY <1>1 DEF NightTimeBetween
<1>3. CASE nightFromHour = nightToHour
  BY <1>1, <1>3, NightHoursAreInWindow DEF IsInNightWindow, NightTimeBetween
<1>4. CASE nightFromHour # nightToHour
  <2>1. now - now + 2 * Day <= MaxDays * Day
    <3>1. PICK m : m = MaxDays * Day
      OBVIOUS
    <3>2. m \in Int /\ MaxDuration \in Nat /\ MaxDuration + 3 * Day <= m
      BY <3>1, DurationIsCovered, DayIsPositive
    <3>3. QED
      BY <3>1, <3>2, <1>1, DayIsPositive
  <2>2. NightTimeBetween(now, now + 1, nightFromHour, nightToHour)
          = 0 + (IF InWindow(now % Day, nightFromHour, nightToHour) THEN 1 ELSE 0)
    BY <1>1, <1>2, <1>4, <2>1, NightTimeStep
  <2>3. QED
    BY <1>1, <1>4, <2>2, NightHoursAreInWindow DEF IsInNightWindow
<1>5. QED
  BY <1>3, <1>4

\* The night time of a running session counts every unit that is in the window
\* once, and no other, for a day of any length and a window from and to any hour
\* (nightTimeSecondsBetween, isInNightWindow).
THEOREM NightTimeCorrect == NightSpec => []NightTimeIsExact
<1> DEFINE Inv == NightType /\ UpTo(now)
<1>1. NightInit => Inv
  <2>1. SUFFICES ASSUME NightInit
                 PROVE  Inv
    OBVIOUS
  <2>2. NightType
    BY <2>1, DayIsPositive, DurationIsCovered DEF NightInit, NightType
  <2>3. now \in Int /\ now <= begun
    BY <2>1, <2>2 DEF NightInit, NightType
  <2>4. QED
    BY <2>2, <2>3, NoUnits DEF UpTo
<1>2. Inv /\ [Tick]_nightVars => Inv'
  <2>1. SUFFICES ASSUME Inv, [Tick]_nightVars
                 PROVE  Inv'
    OBVIOUS
  <2>2. CASE Tick
    <3>1. /\ now \in Int /\ begun \in Int /\ now < begun + MaxDuration
          /\ begun - 1 <= now
      BY <2>1, <2>2, DurationIsCovered DEF NightType, Tick
    <3>2. NightType'
      BY <2>1, <2>2, <3>1, DurationIsCovered DEF NightType, Tick
    <3>3. UpTo(now + 1)
      <4>1. CASE begun <= now
        BY <2>1, <3>1, <4>1, CountStep
      <4>2. CASE now < begun
        <5>1. now + 1 \in Int /\ now + 1 <= begun
          BY <3>1, <4>2
        <5>2. QED
          BY <2>1, <5>1, NoUnits DEF UpTo
      <4>3. QED
        BY <3>1, <4>1, <4>2
    <3>4. UpTo(now)'
      BY <2>2, <3>3 DEF UpTo, NightUnits, NightHours, Tick
    <3>5. QED
      BY <3>2, <3>4
  <2>3. CASE UNCHANGED nightVars
    BY <2>1, <2>3 DEF nightVars, NightType, UpTo, NightUnits, NightHours
  <2>4. QED
    BY <2>1, <2>2, <2>3
<1>3. Inv => NightTimeIsExact
  BY WindowIsExact DEF NightTimeIsExact, UpTo, NightUnits
<1>4. QED
  BY <1>1, <1>2, <1>3, PTL DEF NightSpec
=============================================================================
