------------------------- MODULE AuthScheduleProofs -------------------------
(***************************************************************************)
(* Proofs about AuthSchedule, for any number of jobs, calls and watchdogs  *)
(* at a time and any period: the types, that at most one job goes on, and  *)
(* in which one way a living clock and its job get apart.                  *)
(***************************************************************************)
EXTENDS AuthSchedule, TLAPS

ScheduleInv == ScheduleType /\ OneScheduler

\* The job there was is cancelled before another takes its place.
LEMMA StartKeepsOne ==
  ASSUME ScheduleInv, StartScheduler
  PROVE  /\ authJob' \in Job /\ job' \in [Job -> JobState]
         /\ OneScheduler'
<1>1. PICK j \in Job :
        /\ job' = [Cancelled(authJob) EXCEPT ![j] = [NoJob EXCEPT !.at = "loop", !.active = TRUE]]
        /\ authJob' = j
  BY DEF StartScheduler
<1>2. Cancelled(authJob) \in [Job -> JobState]
  BY DEF ScheduleInv, ScheduleType, Cancelled, JobState
<1>3. [NoJob EXCEPT !.at = "loop", !.active = TRUE] \in JobState
  BY DEF NoJob, JobState
<1>4. authJob' \in Job /\ job' \in [Job -> JobState]
  BY <1>1, <1>2, <1>3
<1>5. \A i \in Job \ {j} : ~Cancelled(authJob)[i].active
  BY DEF ScheduleInv, ScheduleType, OneScheduler, Cancelled, JobState
<1>6. \A i \in Job : job'[i].active => i = j
  BY <1>1, <1>2, <1>5
<1>7. job'[j].at = "loop"
  BY <1>1, <1>2 DEF NoJob
<1>8. OneScheduler'
  BY <1>1, <1>6, <1>7 DEF OneScheduler
<1>9. QED  BY <1>4, <1>8

LEMMA GoesKeepsType ==
  ASSUME ScheduleType, NEW p \in Starter, NEW place \in StarterAt,
         Goes(p, place) \/ GoesOn(p)
  PROVE  at' \in [Starter -> StarterAt]
<1>1. {"watchdog", "sleeps", "idle"} \subseteq StarterAt
  BY DEF StarterAt
<1>2. PICK q \in StarterAt : at' = [at EXCEPT ![p] = q]
  BY <1>1 DEF Goes, GoesOn
<1>3. QED  BY <1>2 DEF ScheduleType

LEMMA CheckKeeps ==
  ASSUME ScheduleInv, NEW p \in Starter, CheckClock(p)
  PROVE  ScheduleInv'
<1>1. "interrupts" \in StarterAt
  BY DEF StarterAt
<1>2. at' \in [Starter -> StarterAt]
  BY <1>1, GoesKeepsType DEF CheckClock, ScheduleInv
<1>3. QED
  BY <1>2 DEF CheckClock, ScheduleInv, ScheduleType, OneScheduler, markVars, schedulerVars

LEMMA CallKeepsType ==
  ASSUME ScheduleType, NEW pc \in {"reset", "mark"}, UNCHANGED call \/ Calls(pc)
  PROVE  call' \in [Call -> {"idle", "reset", "mark", "start"}]
BY DEF ScheduleType, Calls

LEMMA InterruptedKeepsType ==
  ASSUME ScheduleType
  PROVE  Interrupted \in ClockState \ {"live"}
BY DEF ScheduleType, Interrupted, ClockState

\* The three steps in which the clock is started
LEMMA StartKeeps ==
  ASSUME ScheduleInv, NEW p \in Starter, StartsClock(p)
  PROVE  ScheduleInv'
<1> USE DEF ScheduleInv, ScheduleType, markVars, schedulerVars
<1>0. {"schedules", "starts"} \subseteq StarterAt
  BY DEF StarterAt
<1>1. CASE InterruptClock(p)
  <2>1. at' \in [Starter -> StarterAt]
    BY <1>0, <1>1, GoesKeepsType DEF InterruptClock
  <2>2. clock' \in ClockState
    BY <1>1, InterruptedKeepsType DEF InterruptClock
  <2>3. QED  BY <1>1, <2>1, <2>2 DEF InterruptClock, OneScheduler
<1>2. CASE StartClockScheduler(p)
  <2>1. at' \in [Starter -> StarterAt]
    BY <1>0, <1>2, GoesKeepsType DEF StartClockScheduler
  <2>2. QED  BY <1>2, <2>1, StartKeepsOne DEF StartClockScheduler
<1>3. CASE StartClock(p)
  <2>1. at' \in [Starter -> StarterAt]
    BY <1>0, <1>3, GoesKeepsType DEF StartClock
  <2>2. clock' \in ClockState
    BY <1>3 DEF StartClock, ClockState
  <2>3. QED  BY <1>3, <2>1, <2>2 DEF StartClock, OneScheduler
<1>4. QED  BY <1>1, <1>2, <1>3 DEF StartsClock

LEMMA WatchdogKeeps ==
  ASSUME ScheduleInv, NEW w \in Watchdog, WatchdogStep(w)
  PROVE  ScheduleInv'
<1> USE DEF ScheduleInv, ScheduleType, markVars, schedulerVars
<1>0. w \in Starter /\ {"checks", "idle"} \subseteq StarterAt
  BY DEF Starter, StarterAt
<1>1. CASE WatchdogWakes(w)
  <2>1. at' \in [Starter -> StarterAt]
    BY <1>0, <1>1, GoesKeepsType DEF WatchdogWakes
  <2>2. QED  BY <1>1, <2>1 DEF WatchdogWakes, OneScheduler
<1>2. CASE WatchdogEnds(w)
  <2>1. at' \in [Starter -> StarterAt]
    BY <1>0, <1>2, GoesKeepsType DEF WatchdogEnds
  <2>2. QED  BY <1>2, <2>1 DEF WatchdogEnds, OneScheduler
<1>3. CASE WatchdogChecks(w)
  BY <1>0, <1>3, CheckKeeps DEF WatchdogChecks
<1>4. QED  BY <1>1, <1>2, <1>3 DEF WatchdogStep

\* What the screen and the clock do
LEMMA ScreenKeeps ==
  ASSUME ScheduleInv,
         SessionBegins \/ SessionEnds \/ Resume \/ StartWatchdog \/ Pause
           \/ ClockStops \/ SetMark
  PROVE  ScheduleInv'
<1> USE DEF ScheduleInv, ScheduleType, screenVars, markVars, schedulerVars
<1>0. Main \in Starter
  BY DEF Starter
<1>1. CASE SessionBegins
  BY <1>1, CallKeepsType DEF SessionBegins, OneScheduler
<1>2. CASE SessionEnds
  BY <1>2 DEF SessionEnds, OneScheduler
<1>3. CASE Resume
  BY <1>0, <1>3, CheckKeeps DEF Resume
<1>4. CASE StartWatchdog
  <2>1. CASE UNCHANGED watchdog /\ Goes(Main, "idle")
    <3>1. "idle" \in StarterAt
      BY DEF StarterAt
    <3>2. at' \in [Starter -> StarterAt]
      BY <1>0, <2>1, <3>1, GoesKeepsType
    <3>3. QED  BY <1>4, <2>1, <3>2, CallKeepsType DEF StartWatchdog, OneScheduler
  <2>2. CASE \E w \in Watchdog :
               watchdog' = w /\ at' = [at EXCEPT ![Main] = "idle", ![w] = "sleeps"]
    <3>1. at' \in [Starter -> StarterAt]
      BY <2>2 DEF Starter, StarterAt
    <3>2. watchdog' \in Watchdog
      BY <2>2
    <3>3. QED  BY <1>4, <3>1, <3>2, CallKeepsType DEF StartWatchdog, OneScheduler
  <2>3. QED  BY <1>4, <2>1, <2>2 DEF StartWatchdog
<1>5. CASE Pause
  <2>1. job' \in [Job -> JobState] /\ OneScheduler'
    BY <1>5 DEF Pause, Cancelled, OneScheduler, JobState
  <2>2. clock' \in ClockState
    BY <1>5, InterruptedKeepsType DEF Pause
  <2>3. QED  BY <1>5, <2>1, <2>2 DEF Pause
<1>6. CASE ClockStops
  BY <1>6 DEF ClockStops, OneScheduler, ClockState
<1>7. CASE SetMark
  BY <1>7, CallKeepsType DEF SetMark, OneScheduler
<1>8. QED  BY <1>1, <1>2, <1>3, <1>4, <1>5, <1>6, <1>7

\* What a call that sets the mark does
LEMMA CallKeeps ==
  ASSUME ScheduleInv, NEW k \in Call,
         ResetTimeCounter(k) \/ MarkNext(k) \/ StartMarked(k)
  PROVE  ScheduleInv'
<1> USE PeriodIsPositive DEF ScheduleInv, ScheduleType, screenVars, markVars, schedulerVars
<1>1. CASE ResetTimeCounter(k)
  <2>1. call' \in [Call -> {"idle", "reset", "mark", "start"}]
    BY <1>1 DEF ResetTimeCounter
  <2>2. anchored' \in BOOLEAN
    BY <1>1, Zenon DEF ResetTimeCounter
  <2>3. left' \in Int
    BY <1>1 DEF ResetTimeCounter
  <2>4. OneScheduler'
    BY <1>1 DEF ResetTimeCounter, OneScheduler
  <2>5. QED  BY <1>1, <2>1, <2>2, <2>3, <2>4 DEF ResetTimeCounter
<1>2. CASE MarkNext(k)
  BY <1>2 DEF MarkNext, OneScheduler
<1>3. CASE StartMarked(k)
  BY <1>3, StartKeepsOne DEF StartMarked
<1>4. QED  BY <1>1, <1>2, <1>3

\* What a job does: it ends only when it is not active any more.
LEMMA JobKeeps ==
  ASSUME ScheduleInv, NEW j \in Job, JobStep(j)
  PROVE  ScheduleInv'
<1> USE PeriodIsPositive DEF ScheduleInv, ScheduleType, screenVars, markVars, schedulerVars
<1>1. CASE JobEnds(j)
  BY <1>1 DEF JobEnds, OneScheduler, JobState, NoJob
<1>2. CASE JobLooks(j)
  <2> DEFINE wait == IF anchored THEN left ELSE duration
  <2>1. wait \in Int
    OBVIOUS
  <2>2. job' \in [Job -> JobState]
    <3> DEFINE place == IF wait > 0 THEN "sleeps" ELSE "fires"
               sleep == IF wait > 0 THEN wait ELSE 0
    <3>1. job' = [job EXCEPT ![j].at = place, ![j].sleep = sleep]
      BY <1>2 DEF JobLooks
    <3>2. place \in {"sleeps", "fires"} /\ sleep \in Nat
      BY <2>1
    <3> HIDE DEF place, sleep
    <3>3. QED  BY <3>1, <3>2 DEF JobState
  <2>3. OneScheduler'
    BY <1>2, <2>1 DEF JobLooks, OneScheduler, JobState
  <2>4. QED  BY <1>2, <2>1, <2>2, <2>3 DEF JobLooks
<1>3. CASE JobFires(j)
  BY <1>3 DEF JobFires, OneScheduler, JobState
<1>4. QED  BY <1>1, <1>2, <1>3 DEF JobStep

LEMMA TimeKeeps ==
  ASSUME ScheduleInv, TimePasses
  PROVE  ScheduleInv'
<1> USE PeriodIsPositive DEF ScheduleInv, ScheduleType, screenVars, markVars, schedulerVars
<1>1. job' \in [Job -> JobState]
  BY DEF TimePasses, JobState
<1>2. OneScheduler'
  BY DEF TimePasses, OneScheduler, JobState
<1>3. left' \in Int
  BY DEF TimePasses
<1>4. QED  BY <1>1, <1>2, <1>3 DEF TimePasses

LEMMA ScheduleInvariance == ScheduleSpec => []ScheduleInv
<1>1. ScheduleInit => ScheduleInv
  <2> SUFFICES ASSUME ScheduleInit PROVE ScheduleInv
    OBVIOUS
  <2>1. authJob \in Job /\ job \in [Job -> JobState] /\ OneScheduler
    BY DEF ScheduleInit, OneScheduler, NoJob, JobState
  <2>2. left \in Int /\ duration \in 0 .. Period
    BY PeriodIsPositive DEF ScheduleInit
  <2>3. call \in [Call -> {"idle", "reset", "mark", "start"}]
    BY DEF ScheduleInit
  <2>4. at \in [Starter -> StarterAt] /\ clock \in ClockState
    BY DEF ScheduleInit, StarterAt, ClockState
  <2>5. QED  BY <2>1, <2>2, <2>3, <2>4 DEF ScheduleInit, ScheduleInv, ScheduleType
<1>2. ScheduleInv /\ [ScheduleNext]_scheduleVars => ScheduleInv'
  <2> SUFFICES ASSUME ScheduleInv, [ScheduleNext]_scheduleVars PROVE ScheduleInv'
    OBVIOUS
  <2>1. CASE UNCHANGED scheduleVars
    BY <2>1 DEF scheduleVars, screenVars, markVars, schedulerVars, ScheduleInv,
                ScheduleType, OneScheduler
  <2>2. CASE ScheduleNext
    BY <2>2, ScreenKeeps, StartKeeps, WatchdogKeeps, CallKeeps, JobKeeps, TimeKeeps
       DEF ScheduleNext
  <2>3. QED  BY <2>1, <2>2
<1>3. QED  BY <1>1, <1>2, PTL DEF ScheduleSpec

\* OneScheduler, TrainingSessionScreen.kt:264: however the screen is paused and
\* resumed, and whichever threads set the mark, at most one job of the schedule
\* goes on beyond its next sleep.
THEOREM OneSchedulerHolds == ScheduleSpec => []OneScheduler
BY ScheduleInvariance, PTL DEF ScheduleInv
-----------------------------------------------------------------------------
\* The job that is started is the one that goes on.
LEMMA StartedIsActive ==
  ASSUME ScheduleType, StartScheduler
  PROVE  job'[authJob'].active
<1>1. PICK j \in Job :
        /\ job' = [Cancelled(authJob) EXCEPT ![j] = [NoJob EXCEPT !.at = "loop", !.active = TRUE]]
        /\ authJob' = j
  BY DEF StartScheduler
<1>2. Cancelled(authJob) \in [Job -> JobState]
  BY DEF ScheduleType, Cancelled, JobState
<1>3. QED  BY <1>1, <1>2 DEF NoJob

\* What a clock loses its job by, without its life
Parted == clock = "live" /\ job[authJob].active /\ clock' = "live" /\ ~job'[authJob'].active

\* A job's own step does not cancel it: an active one never ends.
LEMMA JobStaysActive ==
  ASSUME ScheduleInv, NEW j \in Job, JobStep(j), job[authJob].active
  PROVE  job'[authJob'].active
<1>0. authJob \in Job /\ job \in [Job -> JobState]
  BY DEF ScheduleInv, ScheduleType
<1>1. authJob' = authJob
  BY DEF JobStep, JobEnds, JobLooks, JobFires
<1>2. job'[authJob].active
  <2>1. CASE JobEnds(j)
    BY <1>0, <2>1 DEF JobEnds, NoJob, JobState
  <2>2. CASE JobLooks(j)
    <3>1. PICK place, sleep : job' = [job EXCEPT ![j].at = place, ![j].sleep = sleep]
      BY <2>2 DEF JobLooks
    <3>2. QED  BY <1>0, <3>1 DEF JobState
  <2>3. CASE JobFires(j)
    BY <1>0, <2>3 DEF JobFires, JobState
  <2>4. QED  BY <2>1, <2>2, <2>3 DEF JobStep
<1>3. QED  BY <1>1, <1>2

LEMMA PartingStep ==
  ASSUME ScheduleInv, [ScheduleNext]_scheduleVars
  PROVE  ~Parted
<1> SUFFICES ASSUME job[authJob].active, clock' = "live"
             PROVE  job'[authJob'].active
  BY DEF Parted
<1> USE DEF screenVars, markVars, schedulerVars
<1>0. ScheduleType /\ authJob \in Job /\ job \in [Job -> JobState]
  BY DEF ScheduleInv, ScheduleType
<1>1. CASE Pause
  BY <1>0, <1>1, InterruptedKeepsType DEF Pause
<1>2. CASE \/ \E p \in Starter : StartClockScheduler(p)
           \/ \E k \in Call : StartMarked(k)
  BY <1>0, <1>2, StartedIsActive DEF StartClockScheduler, StartMarked
<1>3. CASE \E j \in Job : JobStep(j)
  BY <1>3, JobStaysActive
<1>4. CASE TimePasses
  BY <1>0, <1>4 DEF TimePasses, JobState
<1>5. ASSUME UNCHANGED schedulerVars PROVE job'[authJob'].active
  BY <1>5
<1>6. CASE \/ SessionBegins \/ SessionEnds \/ Resume \/ StartWatchdog \/ ClockStops \/ SetMark
           \/ \E w \in Watchdog : WatchdogStep(w)
           \/ \E p \in Starter : InterruptClock(p) \/ StartClock(p)
           \/ \E k \in Call : ResetTimeCounter(k) \/ MarkNext(k)
           \/ UNCHANGED scheduleVars
  BY <1>5, <1>6 DEF SessionBegins, SessionEnds, Resume, StartWatchdog, ClockStops, SetMark,
                    WatchdogStep, WatchdogWakes, WatchdogEnds, WatchdogChecks, CheckClock,
                    InterruptClock, StartClock, ResetTimeCounter, MarkNext, scheduleVars
<1>7. QED
  BY <1>1, <1>2, <1>3, <1>4, <1>6 DEF ScheduleNext, StartsClock

\* NothingPartsThem, TrainingSessionScreen.kt:320: an active job is lost only with
\* the life of the clock it was started with, by a pause, whatever pauses, resumes,
\* watchdogs and calls follow each other. The one way left to a clock without a
\* job is to be started when the pause has already cancelled the job.
THEOREM SchedulerStays == ScheduleSpec => NothingPartsThem
<1>1. ScheduleInv /\ [ScheduleNext]_scheduleVars
        => [clock = "live" /\ job[authJob].active
              => (clock' = "live" => job'[authJob'].active)]_scheduleVars
  BY PartingStep DEF Parted
<1>2. QED  BY <1>1, ScheduleInvariance, PTL DEF ScheduleSpec, NothingPartsThem
=============================================================================
