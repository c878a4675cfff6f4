---------------------------- MODULE AuthSchedule ----------------------------
(***************************************************************************)
(* The schedule by which the training screen sends authentications         *)
(* (TrainingSessionScreen.kt): a job sleeps until the next mark, sends,    *)
(* and moves the mark by a period. The job is cancelled and started anew   *)
(* when the screen is paused and resumed, when the session is continued,   *)
(* at its first recognition and after a late image, by threads that do not *)
(* wait for each other; a cancelled job ends only where it sleeps or tests *)
(* isActive. With the clock the job is started by the main thread and by   *)
(* the watchdog, a coroutine of another dispatcher, in steps between which *)
(* the main thread may pause the screen. The mark is kept as the time left *)
(* to it.                                                                  *)
(***************************************************************************)
EXTENDS Integers

CONSTANTS
  Job,         \* jobs at a time, cancelled ones included (bound)
  Call,        \* calls of scheduleNextSendAuthenData at a time (bound)
  Watchdog,    \* watchdogs at a time, cancelled ones included (bound)
  NoWatchdog,  \* none of them
  Main,        \* the main thread
  Period       \* TIME_FREQUENCY_SENT_DATA

ASSUME PeriodIsPositive == Period \in Nat \ {0}
ASSUME MainIsNoWatchdog == Main \notin Watchdog /\ NoWatchdog \notin Watchdog

VARIABLES
  inSession,    \* whether inProgressSession # null
  watchdog,     \* isThreadRunningJob, or NoWatchdog while that is not active
  at,           \* where the main thread and each watchdog are
  clock,        \* timeCounterThread
  anchored,     \* whether nextSendAuthenDataTime # 0
  left,         \* nextSendAuthenDataTime less the time
  duration,     \* sendAuthenDataDuration
  call,         \* where each call of scheduleNextSendAuthenData is
  authJob,      \* sendAuthenDataJob
  job           \* each job: where it is, whether it is active, how long it sleeps

markVars == <<anchored, left, duration>>
schedulerVars == <<authJob, job>>
screenVars == <<inSession, watchdog, at>>
scheduleVars == <<screenVars, clock, markVars, call, schedulerVars>>

\* Who looks after the clock
Starter == Watchdog \cup {Main}

NoJob == [at |-> "none", active |-> FALSE, sleep |-> 0]

ScheduleInit ==
  /\ inSession = FALSE
  /\ watchdog = NoWatchdog /\ at = [p \in Starter |-> "idle"] /\ clock = "none"
  /\ anchored = FALSE /\ left = 0 /\ duration = Period
  /\ call = [k \in Call |-> "idle"]
  /\ authJob \in Job /\ job = [j \in Job |-> NoJob]
-----------------------------------------------------------------------------
Cancelled(j) == [job EXCEPT ![j].active = FALSE, ![j].sleep = 0]

\* Mutant: the job there was is not cancelled.
StartSchedulerBeside ==
  \E j \in Job : /\ job[j].at = "none"
                 /\ job' = [job EXCEPT ![j] = [NoJob EXCEPT !.at = "loop", !.active = TRUE]]
                 /\ authJob' = j

\* startSendAuthenDataScheduler, which is synchronized
StartScheduler ==
  \E j \in Job :
    /\ job[j].at = "none"
    /\ job' = [Cancelled(authJob) EXCEPT ![j] = [NoJob EXCEPT !.at = "loop", !.active = TRUE]]
    /\ authJob' = j

\* A call of scheduleNextSendAuthenData, after resetTimeCounter or without it
Calls(from) == \E k \in Call : call[k] = "idle" /\ call' = [call EXCEPT ![k] = from]
-----------------------------------------------------------------------------
(* The clock thread, and who looks after it *)

Goes(p, place) == at' = [at EXCEPT ![p] = place]

\* From the clock the main thread goes on to the watchdog, and a watchdog to its
\* delay, which ends it if it has been cancelled.
GoesOn(p) == Goes(p, IF p = Main THEN "watchdog" ELSE IF p = watchdog THEN "sleeps" ELSE "idle")

\* An interrupted thread looks dead, one that is ending for good.
Interrupted == CASE clock = "live" -> "interrupted"
                 [] clock = "ending" -> "dead"
                 [] OTHER -> clock

\* Mutant: a thread that has ended without having been interrupted passes for alive.
ClockIsNotInterrupted == clock \in {"live", "ending", "dead"}

\* isAlive and not isInterrupted: an interrupted sleep clears the interrupt
\* before the thread has ended.
ClockLooksAlive == clock \in {"live", "ending"}

\* The test of onResume, of the answer to the finish dialog and of the watchdog
CheckClock(p) == /\ IF ClockLooksAlive THEN GoesOn(p) ELSE Goes(p, "interrupts")
                 /\ UNCHANGED <<inSession, watchdog, clock, markVars, call, schedulerVars>>

\* startTimeCounter, in three steps: it interrupts the clock there was, starts
\* the scheduler, and starts another clock. The first clock may end at once when
\* it reads the field before that is assigned.
InterruptClock(p) == /\ at[p] = "interrupts" /\ Goes(p, "schedules")
                     /\ clock' = Interrupted
                     /\ UNCHANGED <<inSession, watchdog, markVars, call, schedulerVars>>

StartClockScheduler(p) == /\ at[p] = "schedules" /\ Goes(p, "starts")
                          /\ StartScheduler
                          /\ UNCHANGED <<inSession, watchdog, clock, markVars, call>>

StartClock(p) == /\ at[p] = "starts" /\ GoesOn(p)
                 /\ clock' = "live" \/ (clock = "none" /\ clock' = "dead")
                 /\ UNCHANGED <<inSession, watchdog, markVars, call, schedulerVars>>

\* The interrupt ends the clock where it sleeps. A clock that has been replaced
\* goes on unseen: it only sets marks.
ClockStops == /\ clock \in {"interrupted", "ending"}
              /\ clock' = IF clock = "interrupted" THEN "ending" ELSE "dead"
              /\ UNCHANGED <<screenVars, markVars, call, schedulerVars>>

\* onResume, or the answer to the finish dialog, which may also come when the
\* screen has not been paused
Resume == at[Main] = "idle" /\ CheckClock(Main)

\* It starts a watchdog if none is active, which ends at once when it reads the
\* field before that is assigned; onResume gives the session a mark.
StartWatchdog ==
  /\ at[Main] = "watchdog"
  /\ \/ /\ watchdog = NoWatchdog
        /\ \E w \in Watchdog : /\ at[w] = "idle"
                              /\ watchdog' = w
                              /\ at' = [at EXCEPT ![Main] = "idle", ![w] = "sleeps"]
     \/ UNCHANGED watchdog /\ Goes(Main, "idle")
  /\ UNCHANGED call \/ (inSession /\ Calls("reset"))
  /\ UNCHANGED <<inSession, clock, markVars, schedulerVars>>

\* It goes on while isThreadRunningJob is active: one that was cancelled when it
\* had slept may find another there.
WatchdogWakes(w) == /\ at[w] = "sleeps" /\ watchdog # NoWatchdog /\ Goes(w, "checks")
                    /\ UNCHANGED <<inSession, watchdog, clock, markVars, call, schedulerVars>>

WatchdogEnds(w) == /\ at[w] = "sleeps" /\ w # watchdog /\ Goes(w, "idle")
                   /\ UNCHANGED <<inSession, watchdog, clock, markVars, call, schedulerVars>>

WatchdogChecks(w) == at[w] = "checks" /\ CheckClock(w)

\* Mutant: the clock is not interrupted.
PauseLeavesClock ==
  /\ at[Main] = "idle"
  /\ watchdog' = NoWatchdog
  /\ job' = Cancelled(authJob)
  /\ UNCHANGED <<inSession, at, clock, markVars, call, authJob>>

\* pauseHandleProcess, by onPause and by dialogs, also one after the other
Pause ==
  /\ at[Main] = "idle"
  /\ watchdog' = NoWatchdog
  /\ clock' = Interrupted
  /\ job' = Cancelled(authJob)
  /\ UNCHANGED <<inSession, at, markVars, call, authJob>>
-----------------------------------------------------------------------------
(* The session and the mark *)

\* The session in memory, as seen here; one that is continued gets a mark.
SessionBegins == /\ ~inSession /\ inSession' = TRUE
                 /\ UNCHANGED call \/ Calls("reset")
                 /\ UNCHANGED <<watchdog, at, clock, markVars, schedulerVars>>

SessionEnds == /\ inSession /\ inSession' = FALSE
               /\ UNCHANGED <<watchdog, at, clock, markVars, call, schedulerVars>>

\* The first recognition in a session, by the clock, or an image that comes after
\* its time (handleTimeSendAuthData); how often is left open.
SetMark == /\ inSession
           /\ Calls("mark")
           /\ UNCHANGED <<screenVars, clock, markVars, schedulerVars>>

ResetTimeCounter(k) == /\ call[k] = "reset"
                       /\ call' = [call EXCEPT ![k] = "mark"]
                       /\ anchored' = FALSE /\ left' = 0
                       /\ UNCHANGED <<screenVars, clock, duration, schedulerVars>>

\* scheduleNextSendAuthenData, up to where it starts the scheduler
MarkNext(k) == /\ call[k] = "mark"
               /\ call' = [call EXCEPT ![k] = "start"]
               /\ \E delaySeconds \in 0 .. Period :
                    anchored' = TRUE /\ left' = delaySeconds /\ duration' = delaySeconds
               /\ UNCHANGED <<screenVars, clock, schedulerVars>>

StartMarked(k) == /\ call[k] = "start"
                  /\ call' = [call EXCEPT ![k] = "idle"]
                  /\ StartScheduler
                  /\ UNCHANGED <<screenVars, clock, markVars>>
-----------------------------------------------------------------------------
\* delay() and the loop's test end a job that has been cancelled.
JobEnds(j) == /\ job[j].at \in {"loop", "sleeps"} /\ ~job[j].active
              /\ job' = [job EXCEPT ![j] = NoJob]
              /\ UNCHANGED <<screenVars, clock, markVars, call, authJob>>

\* Reads the time, which is the mark if there is none, and sleeps until the mark
\* unless that is past.
JobLooks(j) ==
  LET wait == IF anchored THEN left ELSE duration
  IN  /\ job[j].active
      /\ job[j].at = "loop" \/ (job[j].at = "sleeps" /\ job[j].sleep = 0)
      /\ anchored' = TRUE /\ left' = wait
      /\ job' = [job EXCEPT ![j].at = IF wait > 0 THEN "sleeps" ELSE "fires",
                            ![j].sleep = IF wait > 0 THEN wait ELSE 0]
      /\ UNCHANGED <<screenVars, clock, duration, call, authJob>>

\* Moves the mark by a period, or to a period from now if it would still be
\* past, as it is when it was reset meanwhile; then sends, if there is a session
\* (sendDataAuthenBlock).
JobFires(j) ==
  /\ job[j].at = "fires"
  /\ anchored' = TRUE
  /\ left' = IF anchored /\ left + Period > 0 THEN left + Period ELSE Period
  /\ duration' = IF inSession THEN Period ELSE duration
  /\ job' = [job EXCEPT ![j].at = "loop"]
  /\ UNCHANGED <<screenVars, clock, call, authJob>>

JobStep(j) == JobEnds(j) \/ JobLooks(j) \/ JobFires(j)

\* A mark a period back, or more, has the same effect. From reading the time to
\* using it none passes.
TimePasses ==
  /\ \A j \in Job : job[j].at # "fires"
  /\ left' = IF anchored /\ left > -Period THEN left - 1 ELSE left
  /\ job' = [j \in Job |-> [job[j] EXCEPT !.sleep = IF @ > 0 THEN @ - 1 ELSE 0]]
  /\ UNCHANGED <<screenVars, clock, anchored, duration, call, authJob>>
-----------------------------------------------------------------------------
WatchdogStep(w) == WatchdogWakes(w) \/ WatchdogEnds(w) \/ WatchdogChecks(w)
StartsClock(p) == InterruptClock(p) \/ StartClockScheduler(p) \/ StartClock(p)

ScheduleNext ==
  \/ SessionBegins \/ SessionEnds \/ Resume \/ StartWatchdog \/ Pause
  \/ ClockStops \/ SetMark
  \/ \E w \in Watchdog : WatchdogStep(w)
  \/ \E p \in Starter : StartsClock(p)
  \/ \E k \in Call : ResetTimeCounter(k) \/ MarkNext(k) \/ StartMarked(k)
  \/ \E j \in Job : JobStep(j)
  \/ TimePasses

ScheduleSpec == ScheduleInit /\ [][ScheduleNext]_scheduleVars
-----------------------------------------------------------------------------
ClockState == {"none", "live", "interrupted", "ending", "dead"}
StarterAt == {"idle", "watchdog", "sleeps", "checks", "interrupts", "schedules", "starts"}
JobState == [at : {"none", "loop", "sleeps", "fires"}, active : BOOLEAN, sleep : Nat]

ScheduleType ==
  /\ inSession \in BOOLEAN /\ anchored \in BOOLEAN
  /\ clock \in ClockState
  /\ watchdog \in Watchdog \cup {NoWatchdog} /\ at \in [Starter -> StarterAt]
  /\ left \in Int /\ duration \in 0 .. Period
  /\ call \in [Call -> {"idle", "reset", "mark", "start"}]
  /\ authJob \in Job /\ job \in [Job -> JobState]

\* However the screen is paused and resumed, and whichever threads set the mark,
\* at most one job goes on beyond its next sleep.
OneScheduler == \A j \in Job : job[j].active => job[j].at # "none" /\ j = authJob

\* A clock that lives beside an active job loses it only with its own life: no
\* pause, resume, start of another scheduler or end of a cancelled job parts the
\* two. They get apart in one way only, when a clock is started after a pause
\* has cancelled the job that was started for it.
NothingPartsThem ==
  [][clock = "live" /\ job[authJob].active
       => (clock' = "live" => job'[authJob'].active)]_scheduleVars

\* While the session lasts, the screen is neither paused nor resumed anew, nothing
\* sets the mark and no clock lives without a job, authentications are sent again
\* and again, although the clock may still be ending when the screen was resumed,
\* and watchdogs be on their way to start it.
AuthenticationsRecur ==
  LET goesOn == /\ inSession /\ at[Main] = "idle" /\ watchdog # NoWatchdog
                /\ \A k \in Call : call[k] = "idle"
                /\ clock = "live" => job[authJob].active
  IN  goesOn ~> (\E j \in Job : job[j].active /\ job[j].at = "fires") \/ ~goesOn

\* TrainingSessionScreen.kt:320-322: the life of the scheduler is bound to that
\* of the clock, since every resume starts both and a pause cancels both.
SchedulerLivesWithClock == clock = "live" => job[authJob].active
=============================================================================
