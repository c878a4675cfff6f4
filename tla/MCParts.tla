------------------------------ MODULE MCParts ------------------------------
(***************************************************************************)
(* Model-checking definitions for the parts of the system which are        *)
(* independent of each other: a behaviour is one of one part, and the      *)
(* others stay as they are at first. With the fairness under which their   *)
(* liveness properties are checked.                                        *)
(***************************************************************************)
EXTENDS FrameAssembly, UvcStream, UvcPreview, NightTime, LogFiles, AuthSchedule

CONSTANTS
  Checked,  \* the parts to be checked: "assembly", "stream", "preview",
            \* "night", "logs", "schedule"
  MaxLater  \* frames in a session of the preview when there are several (bound)

VARIABLE checked  \* the part this behaviour is one of

partsVars == <<checked, asmVars, streamVars, previewVars, nightVars, logVars,
               scheduleVars>>

Init == /\ checked \in Checked
        /\ AsmInit /\ (checked # "assembly" => part = 1)
        /\ StreamInit /\ PreviewInit /\ LogInit
        /\ ScheduleInit /\ (checked # "schedule" => authJob = CHOOSE j \in Job : TRUE)
        /\ NightInit
        /\ checked # "night" => begun = 0 /\ nightFromHour = 0 /\ nightToHour = 0

Assembly == /\ checked = "assembly" /\ AsmNext
            /\ UNCHANGED <<checked, streamVars, previewVars, nightVars, logVars, scheduleVars>>
\* To keep the instance small, the camera stays and sends one frame when streaming
\* is started again.
Stream == /\ checked = "stream" /\ StreamNext
          /\ starts' > 1 => device' = "attached" /\ holdSeq' <= 1
          /\ UNCHANGED <<checked, asmVars, previewVars, nightVars, logVars, scheduleVars>>
\* To keep the instance small, there is a callback in the first session only, and
\* not with all frames.
Preview == /\ checked = "preview" /\ PreviewNext
           /\ session' > 1 => current' <= MaxLater
           /\ session' > 1 \/ current' = MaxSeq => cb' = NoCallback
           /\ UNCHANGED <<checked, asmVars, streamVars, nightVars, logVars, scheduleVars>>
Night == /\ checked = "night" /\ Tick
         /\ UNCHANGED <<checked, asmVars, streamVars, previewVars, logVars, scheduleVars>>
Logs == /\ checked = "logs" /\ LogNext
        /\ rows' > 1 => push'[NoSession].at = "none"
        /\ UNCHANGED <<checked, asmVars, streamVars, previewVars, nightVars, scheduleVars>>

\* To keep the instance small, nothing sends or sets the mark, and no time passes,
\* while a clock is started, and a second watchdog is looked at without a session
\* and a mark.
Schedule == /\ checked = "schedule" /\ ScheduleNext
            /\ \/ \A p \in Starter : at'[p] \in {"idle", "sleeps"}
               \/ /\ \A k \in Call : call'[k] = "idle"
                  /\ \A j \in Job : job'[j].at # "fires"
                  /\ ~TimePasses
            /\ \A v, w \in Watchdog : v < w /\ at'[w] # "idle" =>
                 /\ at[w] = "idle" => at[v] # "idle"
                 /\ ~inSession' /\ ~anchored'
                 /\ \A k \in Call : call'[k] = "idle"
            /\ UNCHANGED <<checked, asmVars, streamVars, previewVars, nightVars, logVars>>

Next == Assembly \/ Stream \/ Preview \/ Night \/ Logs \/ Schedule

Spec == Init /\ [][Next]_partsVars

\* The threads go on: libusb's event thread handles what has happened, the
\* user thread and its callback return, and a stop goes through its steps. A
\* transfer in flight ends or times out; a camera that is there answers a
\* cancelled transfer. Freed memory once used, nothing is said any more.
Streams == checked = "stream" /\ ev # "undefined"
StreamFairness ==
  /\ WF_streamVars(Streams /\ (ReportStep \/ TransferCallback))
  /\ WF_streamVars(Streams /\ UserStep)
  /\ WF_streamVars(Streams /\ StopStep)
  /\ WF_streamVars(Streams /\ Disconnect)
  /\ \A t \in Transfer :
       /\ WF_streamVars(Streams /\ t \in cancelling /\ ReapUrb(t))
       /\ WF_streamVars(Streams /\ t \in flight /\ (TimeoutDue(t) \/ ReapUrb(t)))

\* Nothing says that frames arrive: the camera may be unplugged.
PreviewFairness ==
  /\ WF_previewVars(checked = "preview" /\ CallerStep)
  /\ WF_previewVars(checked = "preview" /\ PrevStep)
  /\ WF_previewVars(checked = "preview" /\ AddPreviewFrame)
  /\ \A s \in Session : WF_previewVars(checked = "preview" /\ CapStep(s))

\* A coroutine that was started goes on.
LogFairness == WF_logVars(checked = "logs" /\ Recovery)

\* Time passes, and the threads and coroutines go on.
ScheduleFairness ==
  /\ WF_scheduleVars(checked = "schedule" /\ TimePasses)
  /\ WF_scheduleVars(checked = "schedule" /\ ClockStops)
  /\ WF_scheduleVars(checked = "schedule" /\ StartWatchdog)
  /\ \A w \in Watchdog : WF_scheduleVars(checked = "schedule" /\ WatchdogStep(w))
  /\ \A p \in Starter : WF_scheduleVars(checked = "schedule" /\ StartsClock(p))
  /\ \A j \in Job : WF_scheduleVars(checked = "schedule" /\ JobStep(j))

FairSpec == /\ Spec
            /\ StreamFairness /\ PreviewFairness /\ LogFairness /\ ScheduleFairness
-----------------------------------------------------------------------------
\* uvc_stream_stop ends, and with it the user thread, unless a transfer that
\* was cancelled when the camera was unplugged is never reported, or one that
\* the stop has freed is used.
StopEnds == ctl = "stop" ~> \/ ctl = "closed"
                            \/ device = "gone" /\ cancelling # {}
                            \/ ev = "undefined"

\* No capture thread of an earlier session goes on as well.
CapturesAlone == \A s \in Session \ {session} : cap[s].at \in {"none", "ended"}

\* setFrameCallback returns, although it waits on the capture thread, if that
\* is still to see that it should not go on capturing, or a frame comes through.
\* stopPreview returns if both threads wait when it signals; one that is between
\* its test and its wait misses the signal, and no frame wakes it any more.
WaitEnds ==
  /\ CapturesAlone
  /\ \/ /\ caller = "setCallback"
        /\ \/ prev.at = "add"
           \/ ~capturing /\ cap[session].at \in {"inner", "got", "java"}
           \/ ~capturing /\ cap[session].at = "wait" /\ session \notin sleepers
     \/ /\ caller = "signalPreview" /\ prevSleeps
        /\ capThread = session /\ session \in sleepers
  ~> caller = "idle"

\* UVCPreview.cpp:239: setFrameCallback waits for the capturing to finish, and
\* then goes on.
SetCallbackReturns == caller = "setCallback" ~> caller = "idle"
=============================================================================
