----------------------------- MODULE NightTime -----------------------------
(***************************************************************************)
(* How much of a training session lies in the night window (Utils.kt). The *)
(* window may cross midnight, be empty or be a whole day, the session may  *)
(* be longer than a day and the clock of the tablet may lag behind the     *)
(* server's. Hours and milliseconds are both one unit of time.             *)
(***************************************************************************)
EXTENDS Integers, FiniteSets

CONSTANTS
  Day,         \* the units of a day
  MaxDays,     \* MAX_NIGHT_WINDOW_DAYS
  MaxDuration  \* how long the session is watched (bound)

ASSUME DayIsPositive == Day \in Nat \ {0}
ASSUME DurationIsCovered == MaxDuration \in Nat /\ MaxDays \in Nat
                            /\ MaxDuration + 3 * Day <= MaxDays * Day

VARIABLES
  begun,  \* the start of the session; the first day begins at 0
  now,    \* Utils.getRealTimeStamp()
  nightFromHour, nightToHour

nightVars == <<begun, now, nightFromHour, nightToHour>>

NightInit == /\ begun \in 0 .. Day - 1
             /\ now = begun - 1
             /\ nightFromHour \in 0 .. Day /\ nightToHour \in 0 .. Day

Tick == /\ now < begun + MaxDuration
        /\ now' = now + 1
        /\ UNCHANGED <<begun, nightFromHour, nightToHour>>

NightType == /\ begun \in 0 .. Day - 1
             /\ now \in begun - 1 .. begun + MaxDuration
             /\ nightFromHour \in 0 .. Day /\ nightToHour \in 0 .. Day

NightSpec == NightInit /\ [][Tick]_nightVars
-----------------------------------------------------------------------------
minOf(a, b) == IF a <= b THEN a ELSE b
maxOf(a, b) == IF a >= b THEN a ELSE b

\* What of the interval is in the window that begins on the day dayStart
Overlap(startTime, endTime, dayStart, fromHour, toHour) ==
  LET to == IF fromHour > toHour THEN toHour + Day ELSE toHour
  IN  minOf(endTime, dayStart + to) - maxOf(startTime, dayStart + fromHour)

\* Mutant: the window that began the evening before is left out.
FirstDayOfSession(startTime) == (startTime \div Day) * Day

\* The first day looked at is the one before the session's.
FirstDay(startTime) == (startTime \div Day) * Day - Day

DayCount(startTime, endTime) ==
  minOf(MaxDays, maxOf(1, (endTime - FirstDay(startTime)) \div Day + 2))

\* What each day adds to nightMillis
Added(startTime, endTime, fromHour, toHour) ==
  [i \in Nat |-> maxOf(0, Overlap(startTime, endTime,
                                  FirstDay(startTime) + i * Day, fromHour, toHour))]

\* nightMillis after so many passes of the loop
Total(added) ==
  LET nightMillis[i \in Nat] ==
        IF i = 0 THEN 0 ELSE nightMillis[i - 1] + added[i - 1]
  IN  nightMillis

NightTimeBetween(startTime, endTime, fromHour, toHour) ==
  IF endTime <= startTime \/ fromHour = toHour THEN 0
  ELSE Total(Added(startTime, endTime, fromHour, toHour))[DayCount(startTime, endTime)]

IsInNightWindow(t, fromHour, toHour) == NightTimeBetween(t, t + 1, fromHour, toHour) > 0
-----------------------------------------------------------------------------
\* The hours of the night, by the time of day
NightHours == IF nightFromHour <= nightToHour
              THEN nightFromHour .. nightToHour - 1
              ELSE (nightFromHour .. Day - 1) \cup (0 .. nightToHour - 1)

\* The night time of the running session counts every unit that is in the
\* window once, and no other; and it is said to increase just when it does.
NightTimeIsExact ==
  /\ NightTimeBetween(begun, now, nightFromHour, nightToHour)
       = Cardinality({t \in begun .. now - 1 : t % Day \in NightHours})
  /\ IsInNightWindow(now, nightFromHour, nightToHour) <=> now % Day \in NightHours
=============================================================================
