----------------------------- MODULE UvcPreview -----------------------------
(***************************************************************************)
(* The native preview (UVCCamera/UVCPreview.cpp): a thread that calls its  *)
(* methods, the stream's user thread, which queues copies of the camera's  *)
(* frames, a preview thread, which draws them, and a capture thread, which *)
(* passes the latest to a Java callback. They meet at two mutexes with a   *)
(* condition each, and at a pool of frame buffers. The stream is that of   *)
(* FrameSource; surfaces and windows, and capturing to one, are left out.  *)
(*                                                                         *)
(* A frame is its number in the stream. A conversion takes a buffer from   *)
(* the pool and gives one back, in one step.                               *)
(***************************************************************************)
EXTENDS FrameSource, Sequences, FiniteSets

CONSTANTS
  Callback, NoCallback, \* Java callbacks, and mFrameCallbackObj = NULL
  QueueSize,            \* MAX_FRAME
  PoolSize,             \* FRAME_POOL_SZ
  MaxSession,           \* how often the preview is started (bound)
  Spurious              \* whether pthread_cond_wait may return without a signal

ASSUME NoCallbackIsNone == NoCallback \notin Callback
ASSUME PreviewSizes == /\ QueueSize \in Nat \ {0} /\ PoolSize \in Nat \ {0}
                       /\ MaxSession \in Nat
ASSUME SpuriousIsBool == Spurious \in BOOLEAN

Session == 1 .. MaxSession
NoFrame == 0
Frame == 1 .. MaxSeq
FrameOrNone == 0 .. MaxSeq

VARIABLES
  run, capturing, cb, \* mIsRunning, mIsCapturing, mFrameCallbackObj
  previewQ, captureQ, \* previewFrames, captureQueu
  pool, frames,       \* the size of mFramePool; the buffers there are in all
  caller,             \* where the thread that calls the methods is
  newCb,              \* the argument of its setFrameCallback
  copy,               \* the copy the user thread is about to queue
  prev,               \* where the preview thread is, and its frame
  cap,                \* so for the capture thread of each session, with the
                      \* callback it calls
  capThread, joined,  \* capture_thread, 0 or a session; which have been joined
  session,            \* how often the preview was started
  prevSleeps,         \* the preview thread waits on preview_sync
  sleepers            \* who waits on capture_sync: the capture thread of a
                      \* session, or Caller

poolVars == <<pool, frames>>
flagVars == <<run, capturing, cb>>
callerVars == <<caller, newCb, joined, session>>
threadVars == <<prev, cap, capThread>>
waitVars == <<prevSleeps, sleepers>>
previewVars == <<sourceVars, flagVars, previewQ, captureQ, poolVars, callerVars,
                 copy, threadVars, waitVars>>

CallerAt == {"idle", "signalPreview", "signalCapture", "joinCapture",
             "joinPreview", "clear", "setCallback"}
PrevAt == {"none", "start", "begin", "loop", "fetch", "wait", "draw", "add",
           "signal", "close", "ended"}
CapAt == {"none", "begin", "outer", "inner", "fetch", "wait", "got", "java", "ended"}
Caller == 0

PreviewType ==
  /\ SourceType
  /\ run \in BOOLEAN /\ capturing \in BOOLEAN /\ cb \in Callback \cup {NoCallback}
  /\ previewQ \in Seq(Frame) /\ Len(previewQ) <= QueueSize
  /\ captureQ \in FrameOrNone
  /\ pool \in 0 .. PoolSize /\ frames \in Int
  /\ caller \in CallerAt /\ newCb \in Callback \cup {NoCallback}
  /\ copy \in FrameOrNone
  /\ prev \in [at : PrevAt, frame : FrameOrNone]
  /\ cap \in [Session -> [at : CapAt, frame : FrameOrNone, cb : Callback \cup {NoCallback}]]
  /\ capThread \in 0 .. MaxSession /\ joined \subseteq Session
  /\ session \in 0 .. MaxSession
  /\ prevSleeps \in BOOLEAN /\ sleepers \subseteq Session \cup {Caller}

PreviewInit ==
  /\ SourceInit
  /\ run = FALSE /\ capturing = FALSE /\ cb = NoCallback
  /\ previewQ = <<>> /\ captureQ = NoFrame
  /\ pool = 0 /\ frames = 0
  /\ caller = "idle" /\ newCb = NoCallback
  /\ copy = NoFrame
  /\ prev = [at |-> "none", frame |-> NoFrame]
  /\ cap = [s \in Session |-> [at |-> "none", frame |-> NoFrame, cb |-> NoCallback]]
  /\ capThread = 0 /\ joined = {} /\ session = 0
  /\ prevSleeps = FALSE /\ sleepers = {}
-----------------------------------------------------------------------------
(* The pool and the conditions *)

\* get_frame; n frames through recycle_frame; both, around a conversion
GetFrame == IF pool > 0 THEN pool' = pool - 1 /\ UNCHANGED frames
                        ELSE frames' = frames + 1 /\ UNCHANGED pool
Recycle(n) == LET fit == IF pool + n <= PoolSize THEN n ELSE PoolSize - pool
              IN  pool' = pool + fit /\ frames' = frames - (n - fit)
Convert == IF pool = 0 THEN pool' = 1 /\ frames' = frames + 1
                       ELSE UNCHANGED poolVars

\* pthread_cond_signal wakes one of those that wait, if any.
SignalPreview == prevSleeps' = FALSE
SignalCapture == IF sleepers = {} THEN UNCHANGED sleepers
                 ELSE \E th \in sleepers : sleepers' = sleepers \ {th}
BroadcastCapture == sleepers' = {}
Sleep(th) == sleepers' = sleepers \cup {th}

PrevGoto(at, f) == prev' = [at |-> at, frame |-> f]
CapGoto(s, at, f) == cap' = [cap EXCEPT ![s] = [at |-> at, frame |-> f, cb |-> NoCallback]]
-----------------------------------------------------------------------------
(* The thread that calls the methods *)

StartPreview ==
  /\ caller = "idle" /\ ~run /\ session < MaxSession
  /\ run' = TRUE
  /\ session' = session + 1
  /\ PrevGoto("start", NoFrame)
  /\ UNCHANGED <<sourceVars, capturing, cb, previewQ, captureQ, poolVars, caller,
                 newCb, joined, copy, cap, capThread, waitVars>>

StopPreview ==
  /\ caller = "idle" /\ session > 0
  /\ run' = FALSE
  /\ caller' = IF run THEN "signalPreview" ELSE "clear"
  /\ UNCHANGED <<sourceVars, capturing, cb, previewQ, captureQ, poolVars, newCb,
                 joined, session, copy, threadVars, waitVars>>

\* Mutant: the preview thread is not woken.
StopSignalsCaptureOnly ==
  /\ \/ caller = "signalPreview" /\ caller' = "signalCapture" /\ UNCHANGED waitVars
     \/ /\ caller = "signalCapture" /\ caller' = "joinCapture"
        /\ SignalCapture /\ UNCHANGED prevSleeps
  /\ UNCHANGED <<sourceVars, flagVars, previewQ, captureQ, poolVars, newCb,
                 joined, session, copy, threadVars>>

\* The signals of stopPreview are sent without the mutex of the condition.
StopSignals ==
  /\ \/ /\ caller = "signalPreview" /\ caller' = "signalCapture"
        /\ SignalPreview /\ UNCHANGED sleepers
     \/ /\ caller = "signalCapture" /\ caller' = "joinCapture"
        /\ SignalCapture /\ UNCHANGED prevSleeps
  /\ UNCHANGED <<sourceVars, flagVars, previewQ, captureQ, poolVars, newCb,
                 joined, session, copy, threadVars>>

\* capture_thread is never reset: it may name a thread that was joined before,
\* which is not waited for, and is NULL or that one if the preview thread is
\* still to create the session's.
JoinCapture ==
  /\ caller = "joinCapture" /\ caller' = "joinPreview"
  /\ capThread \notin {0} \cup joined => cap[capThread].at = "ended"
  /\ joined' = joined \cup ({capThread} \ {0})
  /\ UNCHANGED <<sourceVars, flagVars, previewQ, captureQ, poolVars, newCb,
                 session, copy, threadVars, waitVars>>

JoinPreview ==
  /\ caller = "joinPreview" /\ prev.at = "ended"
  /\ caller' = "clear"
  /\ PrevGoto("none", NoFrame)
  /\ UNCHANGED <<sourceVars, flagVars, previewQ, captureQ, poolVars, newCb,
                 joined, session, copy, cap, capThread, waitVars>>

\* Mutant: the frame captured last is recycled and stays in the queue.
StopClearsPreviewOnly ==
  /\ caller = "clear" /\ caller' = "idle"
  /\ previewQ' = <<>> /\ UNCHANGED captureQ
  /\ Recycle(Len(previewQ) + (IF captureQ = NoFrame THEN 0 ELSE 1))
  /\ UNCHANGED <<sourceVars, flagVars, newCb, joined, session, copy, threadVars,
                 waitVars>>

\* clearPreviewFrame and clearCaptureFrame
StopClears ==
  /\ caller = "clear" /\ caller' = "idle"
  /\ previewQ' = <<>> /\ captureQ' = NoFrame
  /\ Recycle(Len(previewQ) + (IF captureQ = NoFrame THEN 0 ELSE 1))
  /\ UNCHANGED <<sourceVars, flagVars, newCb, joined, session, copy, threadVars,
                 waitVars>>

\* setFrameCallback stops the capturing and waits, if frames go to a callback.
SetFrameCallback(c) ==
  /\ caller = "idle" /\ session > 0
  /\ capturing' = (capturing /\ ~run)
  /\ IF run /\ capturing /\ cb # NoCallback
     THEN /\ caller' = "setCallback" /\ newCb' = c
          /\ \/ sleepers = {} /\ Sleep(Caller)
             \/ \E th \in sleepers : sleepers' = (sleepers \ {th}) \cup {Caller}
          /\ UNCHANGED cb
     ELSE cb' = c /\ UNCHANGED <<caller, newCb, sleepers>>
  /\ UNCHANGED <<sourceVars, run, previewQ, captureQ, poolVars, joined, session,
                 copy, threadVars, prevSleeps>>

ReplaceCallback ==
  /\ caller = "setCallback" /\ Caller \notin sleepers
  /\ cb' = newCb
  /\ caller' = "idle" /\ newCb' = NoCallback
  /\ UNCHANGED <<sourceVars, run, capturing, previewQ, captureQ, poolVars, joined,
                 session, copy, threadVars, waitVars>>
-----------------------------------------------------------------------------
(* The user thread of the stream: uvc_preview_frame_callback *)

FrameArrives ==
  /\ CallBegins
  /\ IF run THEN copy' = current' /\ GetFrame
            ELSE copy' = NoFrame /\ UNCHANGED poolVars
  /\ UNCHANGED <<flagVars, previewQ, captureQ, callerVars, threadVars, waitVars>>

\* Mutants: the queue takes one frame more than it has places; a frame that is
\* not queued is not recycled.
AddPreviewFrameOneMore ==
  /\ CallEnds
  /\ copy' = NoFrame
  /\ IF copy # NoFrame /\ run /\ Len(previewQ) <= QueueSize
     THEN previewQ' = Append(previewQ, copy) /\ SignalPreview /\ UNCHANGED poolVars
     ELSE /\ IF copy # NoFrame THEN Recycle(1) ELSE UNCHANGED poolVars
          /\ UNCHANGED <<previewQ, prevSleeps>>
  /\ UNCHANGED <<flagVars, captureQ, callerVars, threadVars, sleepers>>
AddPreviewFrameOrLeak ==
  /\ CallEnds
  /\ copy' = NoFrame
  /\ IF copy # NoFrame /\ run /\ Len(previewQ) < QueueSize
     THEN previewQ' = Append(previewQ, copy) /\ SignalPreview
     ELSE UNCHANGED <<previewQ, prevSleeps>>
  /\ UNCHANGED <<flagVars, captureQ, poolVars, callerVars, threadVars, sleepers>>

\* addPreviewFrame; the copy may also have failed.
AddPreviewFrame ==
  /\ CallEnds
  /\ copy' = NoFrame
  /\ \/ /\ copy # NoFrame /\ run /\ Len(previewQ) < QueueSize
        /\ previewQ' = Append(previewQ, copy)
        /\ SignalPreview
        /\ UNCHANGED poolVars
     \/ /\ IF copy # NoFrame THEN Recycle(1) ELSE UNCHANGED poolVars
        /\ UNCHANGED <<previewQ, prevSleeps>>
  /\ UNCHANGED <<flagVars, captureQ, callerVars, threadVars, sleepers>>
-----------------------------------------------------------------------------
(* The preview thread *)

\* prepare_preview and uvc_start_streaming; if one fails, the thread ends.
StartStream ==
  /\ prev.at = "start"
  /\ \/ PrevGoto("ended", NoFrame) /\ UNCHANGED sourceVars
     \/ PrevGoto("begin", NoFrame) /\ Open
  /\ UNCHANGED <<flagVars, previewQ, captureQ, poolVars, callerVars, copy, cap,
                 capThread, waitVars>>

\* The frames that are queued by now are dropped, the capture thread begins.
BeginPreview ==
  /\ prev.at = "begin" /\ PrevGoto("loop", NoFrame)
  /\ previewQ' = <<>> /\ Recycle(Len(previewQ))
  /\ capThread' = session
  /\ CapGoto(session, "begin", NoFrame)
  /\ UNCHANGED <<sourceVars, flagVars, captureQ, callerVars, copy, waitVars>>

PrevLoop ==
  /\ prev.at = "loop"
  /\ PrevGoto(IF run THEN "fetch" ELSE "signal", NoFrame)
  /\ UNCHANGED <<sourceVars, flagVars, previewQ, captureQ, poolVars, callerVars,
                 copy, cap, capThread, waitVars>>

\* Mutant: the newest frame is taken, and the older ones are left for later.
WaitPreviewFrameNewest ==
  /\ \/ prev.at = "fetch"
     \/ prev.at = "wait" /\ ~prevSleeps
  /\ IF prev.at = "fetch" /\ previewQ = <<>>
     THEN PrevGoto("wait", NoFrame) /\ prevSleeps' = TRUE /\ UNCHANGED previewQ
     ELSE /\ IF run /\ previewQ # <<>>
             THEN /\ PrevGoto("draw", previewQ[Len(previewQ)])
                  /\ previewQ' = SubSeq(previewQ, 1, Len(previewQ) - 1)
             ELSE PrevGoto("loop", NoFrame) /\ UNCHANGED previewQ
          /\ UNCHANGED prevSleeps
  /\ UNCHANGED <<sourceVars, flagVars, captureQ, poolVars, callerVars, copy, cap,
                 capThread, sleepers>>

\* waitPreviewFrame waits at most once, and not only while the preview runs.
WaitPreviewFrame ==
  /\ \/ prev.at = "fetch"
     \/ prev.at = "wait" /\ ~prevSleeps
  /\ IF prev.at = "fetch" /\ previewQ = <<>>
     THEN PrevGoto("wait", NoFrame) /\ prevSleeps' = TRUE /\ UNCHANGED previewQ
     ELSE /\ IF run /\ previewQ # <<>>
             THEN PrevGoto("draw", Head(previewQ)) /\ previewQ' = Tail(previewQ)
             ELSE PrevGoto("loop", NoFrame) /\ UNCHANGED previewQ
          /\ UNCHANGED prevSleeps
  /\ UNCHANGED <<sourceVars, flagVars, captureQ, poolVars, callerVars, copy, cap,
                 capThread, sleepers>>

\* A frame that cannot be decoded is dropped.
Draw ==
  /\ prev.at = "draw"
  /\ \/ PrevGoto("add", prev.frame) /\ (Convert \/ UNCHANGED poolVars)
     \/ PrevGoto("loop", NoFrame) /\ Recycle(1)
  /\ UNCHANGED <<sourceVars, flagVars, previewQ, captureQ, callerVars, copy, cap,
                 capThread, waitVars>>

\* Mutant: one of those that wait is woken.
AddCaptureFrameWakesOne ==
  /\ prev.at = "add" /\ PrevGoto("loop", NoFrame)
  /\ IF run
     THEN /\ captureQ' = prev.frame
          /\ IF captureQ # NoFrame THEN Recycle(1) ELSE UNCHANGED poolVars
          /\ SignalCapture
     ELSE UNCHANGED <<captureQ, poolVars, sleepers>>
  /\ UNCHANGED <<sourceVars, flagVars, previewQ, callerVars, copy, cap,
                 capThread, prevSleeps>>

\* Only the latest frame is kept. When the preview has been stopped the frame
\* goes neither to the queue nor to the pool.
AddCaptureFrame ==
  /\ prev.at = "add" /\ PrevGoto("loop", NoFrame)
  /\ IF run
     THEN /\ captureQ' = prev.frame
          /\ IF captureQ # NoFrame THEN Recycle(1) ELSE UNCHANGED poolVars
          /\ BroadcastCapture
     ELSE UNCHANGED <<captureQ, poolVars, sleepers>>
  /\ UNCHANGED <<sourceVars, flagVars, previewQ, callerVars, copy, cap,
                 capThread, prevSleeps>>

PrevSignals ==
  /\ prev.at = "signal" /\ PrevGoto("close", NoFrame)
  /\ SignalCapture
  /\ UNCHANGED <<sourceVars, flagVars, previewQ, captureQ, poolVars, callerVars,
                 copy, cap, capThread, prevSleeps>>

\* uvc_stop_streaming
PrevCloses ==
  /\ prev.at = "close" /\ PrevGoto("ended", NoFrame)
  /\ Close
  /\ UNCHANGED <<flagVars, previewQ, captureQ, poolVars, callerVars, copy, cap,
                 capThread, waitVars>>
-----------------------------------------------------------------------------
(* The capture thread of session s: do_capture *)

CapClears(s) ==
  /\ cap[s].at = "begin" /\ CapGoto(s, "outer", NoFrame)
  /\ captureQ' = NoFrame
  /\ Recycle(IF captureQ = NoFrame THEN 0 ELSE 1)
  /\ UNCHANGED <<sourceVars, flagVars, previewQ, callerVars, copy, prev,
                 capThread, waitVars>>

CapOuter(s) ==
  /\ cap[s].at = "outer"
  /\ IF run THEN CapGoto(s, "inner", NoFrame) /\ capturing' = TRUE
            ELSE CapGoto(s, "ended", NoFrame) /\ UNCHANGED capturing
  /\ UNCHANGED <<sourceVars, run, cb, previewQ, captureQ, poolVars, callerVars,
                 copy, prev, capThread, waitVars>>

\* Mutant: nobody is woken when the capturing has ended.
CapInnerSilently(s) ==
  /\ cap[s].at = "inner"
  /\ CapGoto(s, IF run /\ capturing THEN "fetch" ELSE "outer", NoFrame)
  /\ UNCHANGED <<sourceVars, flagVars, previewQ, captureQ, poolVars, callerVars,
                 copy, prev, capThread, waitVars>>

\* do_capture_idle_loop; when it ends, whoever waits for that is woken.
CapInner(s) ==
  /\ cap[s].at = "inner"
  /\ IF run /\ capturing THEN CapGoto(s, "fetch", NoFrame) /\ UNCHANGED sleepers
                         ELSE CapGoto(s, "outer", NoFrame) /\ BroadcastCapture
  /\ UNCHANGED <<sourceVars, flagVars, previewQ, captureQ, poolVars, callerVars,
                 copy, prev, capThread, prevSleeps>>

WaitCaptureFrame(s) ==
  /\ \/ cap[s].at = "fetch"
     \/ cap[s].at = "wait" /\ s \notin sleepers
  /\ IF cap[s].at = "fetch" /\ captureQ = NoFrame
     THEN CapGoto(s, "wait", NoFrame) /\ Sleep(s) /\ UNCHANGED captureQ
     ELSE /\ IF run /\ captureQ # NoFrame
             THEN CapGoto(s, "got", captureQ) /\ captureQ' = NoFrame
             ELSE CapGoto(s, "inner", NoFrame) /\ UNCHANGED captureQ
          /\ UNCHANGED sleepers
  /\ UNCHANGED <<sourceVars, flagVars, previewQ, poolVars, callerVars, copy,
                 prev, capThread, prevSleeps>>

\* do_capture_callback: the frame is converted and passed to the callback that
\* is set, without the mutex; with none, or if it fails, the frame goes back.
CapCalls(s) ==
  /\ cap[s].at = "got"
  /\ \/ /\ cb # NoCallback
        /\ cap' = [cap EXCEPT ![s].at = "java", ![s].cb = cb]
        /\ Convert \/ UNCHANGED poolVars
     \/ CapGoto(s, "inner", NoFrame) /\ Recycle(1)
  /\ UNCHANGED <<sourceVars, flagVars, previewQ, captureQ, callerVars, copy, prev,
                 capThread, waitVars>>

CapReturns(s) ==
  /\ cap[s].at = "java" /\ CapGoto(s, "inner", NoFrame)
  /\ Recycle(1)
  /\ UNCHANGED <<sourceVars, flagVars, previewQ, captureQ, callerVars, copy, prev,
                 capThread, waitVars>>

SpuriousWakeup ==
  /\ Spurious
  /\ \/ prevSleeps /\ prevSleeps' = FALSE /\ UNCHANGED sleepers
     \/ \E th \in sleepers : sleepers' = sleepers \ {th} /\ UNCHANGED prevSleeps
  /\ UNCHANGED <<sourceVars, flagVars, previewQ, captureQ, poolVars, callerVars,
                 copy, threadVars>>
-----------------------------------------------------------------------------
CallerStep == StopSignals \/ JoinCapture \/ JoinPreview \/ StopClears \/ ReplaceCallback
PrevStep == \/ StartStream \/ BeginPreview \/ PrevLoop \/ WaitPreviewFrame
            \/ Draw \/ AddCaptureFrame \/ PrevSignals \/ PrevCloses
CapStep(s) == \/ CapClears(s) \/ CapOuter(s) \/ CapInner(s)
              \/ WaitCaptureFrame(s) \/ CapCalls(s) \/ CapReturns(s)

PreviewNext ==
  \/ StartPreview \/ StopPreview \/ CallerStep
  \/ \E c \in Callback \cup {NoCallback} : SetFrameCallback(c)
  \/ FrameArrives \/ AddPreviewFrame
  \/ PrevStep \/ SpuriousWakeup
  \/ \E s \in Session : CapStep(s)

PreviewSpec == PreviewInit /\ [][PreviewNext]_previewVars
-----------------------------------------------------------------------------
One(f) == IF f = NoFrame THEN 0 ELSE 1

\* The sessions whose capture thread has a frame
Holding == {s \in Session : cap[s].frame # NoFrame}

\* The buffers that are in a queue or with a thread, and those in the pool too
Queued == Len(previewQ) + One(captureQ)
InHand == One(copy) + One(prev.frame) + Cardinality(Holding)
Owned == pool + Queued + InHand

\* No buffer is in two places at once: none is recycled twice, or while a queue
\* or another thread still has it.
NoFrameTwice == Owned <= frames

\* Buffers get lost only by the stop of a preview, at most one each time.
LostOnlyByStop ==
  [][frames' - Owned' # frames - Owned
       => ~run /\ frames' - Owned' = frames - Owned + 1]_previewVars

\* No wake-up for a frame is lost: while a thread sleeps, the queue it would take
\* a frame from is empty, although setFrameCallback sleeps on the same condition
\* as the capture threads, and threads of two sessions may.
NobodySleepsOnFrame ==
  /\ prevSleeps => prev.at = "wait" /\ previewQ = <<>>
  /\ \A s \in sleepers \ {Caller} : cap[s].at = "wait" /\ captureQ = NoFrame

\* The frames of a session go through the preview in their order: what a later
\* station has is older than what an earlier one has. (The capture thread of an
\* earlier session that outlived its stop takes frames as well.)
FramesInOrder ==
  LET Last == IF session = 0 THEN NoFrame ELSE cap[session].frame
  IN  /\ \A i, j \in 1 .. Len(previewQ) : i < j => previewQ[i] < previewQ[j]
      /\ \A i \in 1 .. Len(previewQ) :
           /\ previewQ[i] <= current /\ (copy # NoFrame => previewQ[i] < copy)
           /\ prev.frame < previewQ[i] /\ captureQ < previewQ[i]
      /\ prev.frame # NoFrame => captureQ < prev.frame /\ Last < prev.frame
      /\ captureQ # NoFrame => Last < captureQ
=============================================================================
