# Verification of DAT: training sessions on a device that is often offline

DAT is the Android application of a driving school's training car. A student
and a teacher log in, a *session* is opened, the application records position,
distance and face authentications while they drive, and the session is finished
and reported to the school's server and from there to the authority ("Tổng
Cục", TC below). The car is often out of coverage, so sessions are opened and
finished offline, kept in a local table and resent later. The paths that must
not lose, duplicate or falsify a session are the core of the program and the
first subject of this project. The second is the camera: its native library moves
frames from a USB device that may be unplugged at any moment to the face
recognition, through transfers, buffers, three threads and two languages.

Kotlin file names below are relative to `src/app/src/main/java/com/hc/dat/`, C and
C++ file names to `src/libuvccamera/src/main/jni/`; `VM` is
`viewmodel/RiderSessionViewModel.kt`, `Screen` is `view/TrainingSessionScreen.kt`.

## 1. Inventory

| Component | State | Operations | Correct when |
|---|---|---|---|
| Session life (`VM` 1104-1610, 1730-1873, 2270-2359) | `localRiderSession`, `inProgressSession`, `fetchSessionJob` | `getInProgressSessionByStudent`, `startRiderSession`, `continueInProgressSession`, `finishRiderSession`, `saveFinishSessionForReSend`, `adminLogoutHandler`, `fetchCurrentSession`, `resetDataSession` | the session in memory, its row and the server's session are one; a finish is sent or saved |
| Recovery (`VM` 72-93, 171-293, 734-806) | `recoverUploadInProgress`, a list of row objects | `triggerRecoverSendOfflineData`, `recoverSendOfflineData`, `handleRecoverUploadSession`, `handleRecoverUploadFinishSession` | every saved finish is sent, none is dropped, a running session is left alone |
| Local table `rider_session` (`model/repository/RepositoryImpl.kt`, `model/database`) | rows with state, session id, student, finish data | insert, `updateEndSessionInfo`, `updateStartSessionToOnline`, `updateSessionUploadState`, queries | survives a process death; ids ascend |
| Training session screen (`Screen`, `view/dialog/FinishSessionDialog.kt`) | where the login is, timers, dialogs | login, finish, retry without TC, auto-logout, forced logout | one session at a time |
| Connectivity (`device/.../NetworkConnectionHandler.kt`) | available or not | `onAvailable`, `onLost` | the recovery is triggered when the network is back |
| Server | sessions | start, finish, check, fetch | external |
| Telemetry (`VM` 122-169, 662-732, 881-1095, `service/SenderGps.kt`, `service/SenderAuth.kt`) | two tables of rows with a sent mark, `isReUploadDataInSession` | push, save, re-upload | a row marked sent was sent |
| Authentication schedule (`Screen` 173-376, 2980-3110, 3370-3400) | `nextSendAuthenDataTime`, `sendAuthenDataDuration`, `sendAuthenDataJob`, the clock thread, the watchdog | `scheduleNextSendAuthenData`, `startSendAuthenDataScheduler`, `startTimeCounter`, pause, resume | one authentication per period, by one job |
| Night and automatic time (`utils/Utils.kt` 316-396, `VM` 2377-2460) | thresholds | `nightTimeSecondsBetween`, `isInNightWindow` | the overlap of the session with the night |
| Interruption check (`VM` 600-660) | a counter on the row | `canContinueSessionAfterDisruption` | at most two interruptions |
| Log files (`VM` 385-550, `src/type/.../LogRecorder.kt`) | `recordLogFile`, `recoverUploadLogFiles`, a mark per row | create, push, push again | every log arrives |
| Frames of the camera (`libuvc/src/stream.c` 560-900) | two buffers, `fid`, `seq`, `hold_seq` | `_uvc_process_payload`, `_uvc_swap_buffers`, `_uvc_populate_frame` | an image is of one frame, and no older than the last |
| Streaming (`libuvc/src/stream.c` 900-1640; `libusb/libusb/io.c`, `os/linux_usbfs.c`) | the transfers in flight, `running`, `cb_cond` | start, the transfers' callback, the user thread, stop; completion, timeout, cancellation, disconnection | a transfer is freed once and not while in flight; stop ends; no callback after it |
| Native preview (`UVCCamera/UVCPreview.cpp`) | two queues, a pool of buffers, `mIsRunning`, `mIsCapturing`, the frame callback | start, stop, `setFrameCallback`; the preview and the capture thread | no buffer in two places; frames in order; no thread waits for ever |
| GPS filter (`model/SessionVerificationInfo.kt`, `device/.../GPSHandler.kt`) | last location | decide whether a fix counts | no distance from jumps |
| Others | | session history, missing data, face recognition, device configuration, teacher login, devices, report, camera service, the older Java application, the rest of the native libraries | not the core |

Components talk in five ways: direct calls from the screen to the ViewModel with
a callback; coroutines started by those calls, which run on background threads
and suspend at every remote call; connectivity callbacks of the system; the
shared fields of the ViewModel, a singleton (`di/module/ViewModelModule.kt`
35-38) which outlives the screen and is not guarded by any lock while a
coroutine waits for the server; and, in the camera, threads with mutexes,
condition variables and flags that are read with and without them.

What is hard here:

- *Interleaving.* Between the request of a remote call and its reply anything
  else may happen to the fields it goes on to read: a finish, a forced logout, a
  login, the recovery.
- *Old copies.* The recovery works through row objects it read once; a resumed
  session takes over the state of whatever session is in memory; a reply about
  one session is applied to the session in memory when it arrives.
- *Lost replies.* A call may have taken effect on the server although it failed.
- *Process death* at any point: only the table survives.
- *Progress.* The recovery runs on connectivity events only and drops a trigger
  that comes while it runs.
- *Cooperative cancellation.* A cancelled job or a watchdog ends only where it
  sleeps or tests `isActive`; what it does before that meets its successor.
- *Condition variables.* Some are signalled without their mutex, waited on
  without a loop, or tested before the mutex is taken.
- *Unplugging.* Transfers that are submitted, cancelled or reported while the
  device disappears; each must be freed once, by the right side.
- *Packet loss.* A frame ends by one of three signs, any of which may be lost.

`PROJECT.json` lists each hazard with its line and the properties aimed at it.

## 2. Modules

| Module | What it is |
|---|---|
| `SessionSync` | the session life, the recovery, the table, the screen's login flow, connectivity, process death and the server as the calls see it; invariants and action properties |
| `MCSessionSync` | what only TLC needs: symmetry, fairness, and the temporal properties |
| `SessionSyncProofs` | the theorems about `SessionSync`, for every value of its constants |
| `SessionTable` | the abstract specification of the sessions: what other components may rely on. `SessionSync` implements it (`ImplementsTable`) |
| `Telemetry` | positions and authentications: push, local copy, re-upload, recovery; it extends `SessionTable` and takes its steps as the life of the sessions |
| `MCTelemetry`, `TelemetryProofs` | symmetry, fairness and temporal properties of `Telemetry`; the theorems about it |
| `FrameAssembly`, `FrameAssemblyProofs` | payload packets put together to frames and handed over, with packets lost; the theorems |
| `UvcStream`, `UvcStreamProofs` | the transfers of a stream and the three threads that meet there, with cancellation, timeouts and unplugging; the theorems |
| `FrameSource` | the abstract specification of a stream: what the preview may rely on. `UvcStream` implements it (`ImplementsSource`) |
| `UvcPreview`, `UvcPreviewProofs` | the native preview, which extends `FrameSource`; the theorems about its buffers, its wake-ups and the order of its frames |
| `AuthSchedule`, `AuthScheduleProofs` | the schedule of the authentications; the theorems |
| `LogFiles`, `LogFilesProofs` | the uploads of log files and their recovery; the theorems |
| `NightTime`, `NightTimeProofs` | the night time of a session, with its reference definition; the theorem that they agree |
| `MCParts` | the six parts above for TLC, with their fairness and temporal properties. They share no variable: a behaviour is one of one part (`checked`), and the others stay as they are |

`Telemetry` could be composed with all of `SessionSync`; the product is too large
to check and says no more. Instead the two meet in `SessionTable`: its variables
are the number of rows, whether each is running, finished or sent, its id, and
the row in memory; its steps are opening or resuming (`Insert`, `Attach`), ending
(`End`), forgetting (`Forget`), and what the recovery does (`GiveId`, `MarkSent`).
`SessionSync` refines it, with `RowStatus` computed from the row's state.

The camera is composed in the same way. `FrameSource` says that the frame callback
runs only between the start of streaming and the return of its stop, by one
caller at a time, each time with a newer frame. `UvcStream` refines it; the preview
takes its steps for the camera. `FrameAssembly` is below both: it says what is in
a frame, and that frames get newer, where `UvcStream` only counts them.

### State and code

| Variables | Code |
|---|---|
| `rowCount`, `rowState`, `rowSid`, `rowStudent` | the table `rider_session`: rows `1 .. rowCount`, `SessionState` 0 to 4, `session_id` (`NoSid` is null), `student_code` |
| `rowEnded` | the rows with `logout_time`, `logout_image_path` and end position |
| `liveRow`, `liveState` | `localRiderSession.id` and `.state`; `NoRow` is null |
| `liveId` | `inProgressSession.id`; `NoSid` stands for the local id an offline session uses there |
| `finPc` | where each coroutine of `finishRiderSession` is |
| `recPc`, `recTodo`, `snapState`, `snapSid`, `snapEnded`, `recSid` | the coroutine of `recoverSendOfflineData`: where it is, the rows left, its copies of them, the id in a start reply; `recPc # "idle"` is `recoverUploadInProgress` |
| `fetchPc`, `fetchSid` | the latest `fetchCurrentSession` and the session it asked about; the forced logout that follows |
| `screen`, `loginSid`, `loginStudent` | where the training screen is: logging in, about to resume, about to start, waiting for the start reply, in a session |
| `net` | connectivity |
| `srvState`, `srvStudent` | the server's sessions |
| `restarts` | process deaths so far |

For `Telemetry`, besides the variables of `SessionTable`:

| Variables | Code |
|---|---|
| `pushPc` | where the coroutine that pushes a sample is: `pushGPSData`, or `uploadImageInSession` followed by `pushAuthenticateData` |
| `filed`, `sent` | the tables `gps_signal` and `student_authentication`: `local_session_id`, and `state = SENT_ONLINE` |
| `taken` | what the broker took, under which session id (`NoSid` stands for the local id of a session opened offline) |
| `upPc`, `upTodo`, `upBy` | `checkAndReUploadData`: where it is, the samples left of its list, and whether the session clock or a finish called it; `upPc # "idle"` is `isReUploadDataInSession` |
| `recPc`, `recTodo`, `recLeft`, `snapStatus`, `snapSid`, `snapData` | the recovery: the rows left, the samples left of the current one, and the copies of rows and lists it made at the beginning |

| `FrameAssembly` | Code |
|---|---|
| `frame`, `part`, `lost`, `hurt` | the camera: the packet it sends next, packets lost in a row, frames with a packet lost |
| `pkt` | the packet `_uvc_process_payload` is at, between its header and its data |
| `fid`, `got`, `outbuf`, `seq`, `holdbuf`, `heldSeq` | `strmh->fid`, `got_bytes`, `outbuf`, `seq`, `holdbuf`, `hold_seq`; a buffer is the set of packets copied into it |
| `seenSeq`, `image` | `last_seq` of `_uvc_user_caller` and the frame it passes on |

| `UvcStream` | Code |
|---|---|
| `device` | attached; unplugged; and the disconnect handled by `usbi_handle_disconnect` |
| `running`, `held`, `holdSeq`, `asleep` | `strmh->running`, `transfers[]`, `hold_seq`, the waiters on `cb_cond` |
| `flight`, `cancelling`, `timedOut` | the transfers on libusb's `flying_transfers`, and their flags |
| `urbs` | those whose URBs are still to be reaped from the kernel, whatever libusb knows of them |
| `ctl`, `next` | `uvc_stream_start` and `uvc_stream_stop`: where they are, and the transfer they submit or cancel next |
| `ev`, `evT` | libusb's event thread: the transfer it has found (reaped, picked for the disconnect, or due) and not locked yet, or whose `_uvc_stream_callback` it runs; `"undefined"` when it has used one that was freed |
| `user`, `lastSeq` | `_uvc_user_caller` |

| `UvcPreview` | Code |
|---|---|
| `run`, `capturing`, `cb` | `mIsRunning`, `mIsCapturing`, `mFrameCallbackObj` |
| `previewQ`, `captureQ`, `pool` | `previewFrames`, `captureQueu`, the size of `mFramePool`; `frames` counts the buffers there are |
| `caller`, `newCb` | the thread that calls `startPreview`, `stopPreview`, `setFrameCallback` |
| `copy` | the copy in `uvc_preview_frame_callback` |
| `prev`, `prevSleeps` | the preview thread, its frame, and whether it waits on `preview_sync` |
| `cap`, `capThread`, `joined`, `sleepers` | the capture thread of each session, `capture_thread`, the threads joined, the waiters on `capture_sync` |

| `AuthSchedule` | Code |
|---|---|
| `left`, `anchored`, `duration` | `nextSendAuthenDataTime` less the time, whether it is set, `sendAuthenDataDuration` |
| `job`, `authJob` | the jobs of `startSendAuthenDataScheduler` and `sendAuthenDataJob` |
| `call` | each `scheduleNextSendAuthenData` under way |
| `clock` | `timeCounterThread`: alive, interrupted, past its interrupt and not yet ended, or dead |
| `watchdog` | `isThreadRunningJob` while it is active |
| `at` | where the main thread and each watchdog, a cancelled one included, are between testing the clock and starting it |
| `inSession` | `inProgressSession` |

| `LogFiles` | Code |
|---|---|
| `rows`, `finished`, `inMemory` | the sessions, as far as logs need them |
| `record`, `disk` | `LogRecorder.recordLogFile` and the files; a file is its session and whether its name has the suffix |
| `push` | each `pushLogFile`, and the file it uploads |
| `marked`, `server` | `isSentLogState` of each row; the logs the server has |
| `recovering`, `recover` | `recoverUploadLogFiles`, and where the recovery is |

One action is what a coroutine does from one suspension point to the next. A
remote call is two actions: the request, in which the server acts, and the
reply, in which the application goes on. A lost reply is a request that takes
effect followed by the failure path (`RecStartFails`, `RecFinishFails`,
`FinishSend`, `StartOnlineCall`). Saving a finish and resetting the session are
two actions (`FinishOffline`, `FinishRefused`, `FinishOk`, then `FinishReset`)
because the report is exported and the log pushed between them.

### Abstractions

- Looking up an offline session and resuming it are one step, and the row found
  by `restoreVerifyCounterFromLocal` is taken as it is when the session is
  resumed: only a window of the size of a thread switch lies between.
- `net` is both the system's connectivity and the reach of the server; a call
  may fail with the network up, none succeeds with the network down.
- One fetch is outstanding: a new one cancels the old one. The screen cannot be
  left while a start call is under way.
- A login refused for the teacher, the device or the student's availability is
  `LeaveScreen`.
- The images uploaded before a call are part of it, except the logout image of a
  finish with the network up, whose failures differ (`FinishUploadImage`,
  `FinishUnknown`). The offline branch uploads none and saves.
- The GPS and authentication rows the recovery sends are left to `Telemetry`;
  they change no variable of `SessionSync`.
- `localRiderSession?.sessionId!!` (`VM` 228) throwing because the session is
  reset between two statements is not modelled.
- Position, time, distance, images and messages carry no control here.

Of `Telemetry`:

- Steps on the sessions, the recovery's calls about them included, are one step
  each: their interleavings are those of `SessionSync`, which refines the table.
- Sending a queued sample and marking its row are one step (`Resend`). A process
  death between the two looks like a broker that takes the sample and a step
  that is never reached; the sample is sent again, as the code does.
- A list is a set: samples of one kind are sent in any order, the
  authentications before the positions.
- A push is allowed whenever a session is in memory; a session without a
  position (`lat`, `long` zero) does not push, which is a step not taken.
- `PushMissing` stands for one sample of `pushDataMissing`: what the server
  misses is a sample it did not take under the row's id.
- An exception in the clock's coroutine ends the process (`UpFails`,
  `ProcessDies`): it is launched without a handler
  (`view/TrainingSessionScreen.kt` 3075), and the application installs none.
- Counters on the screen and the content of the messages are left out.

`UnknownIdIsEnded` says whether the server answers "ended" (status 0) when asked
about a local id it never issued. The code does not decide it, so the proofs
hold for both values and the safety runs take the worse one, TRUE.

Of the other parts:

- *Packets* have size 1, and no more than `MaxLost` of them, fewer than a frame
  has, get lost in a row: with a whole frame lost the frame-id bit says nothing,
  and the code has no other sign.
- `UvcStream` counts frames and leaves their content to `FrameAssembly`. A freed
  transfer leaves libusb's list because `libusb_free_transfer` is patched to do so;
  its URBs stay with the kernel (`CancelNext`). One URB, the last, stands for those
  of a transfer. Where libusb has found a transfer and holds no lock (`FoundAt`) the
  stop may free it; the event thread then uses freed memory (`UseFreed`), and
  nothing after that is modelled: no behaviour of the C code is defined there.
  Of libusb, the stream's bulk and isochronous transfers are modelled, and not
  the event loop's file descriptors, hotplug or control transfers.
- In `UvcPreview` a frame is its number; a conversion takes a buffer and gives one
  back in one step; surfaces, windows and capturing to one are left out.
  `Spurious` says whether a wait may end without a signal, as POSIX allows.
- In `NightTime` an hour and a millisecond are one unit, and a day has `Day` of
  them. The time zone is a shift of the start and is left out.
- In `AuthSchedule` the mark is kept as the time left to it, down to a period ago:
  older marks have the same effect. Between reading the clock and using what was
  read no time passes. `nextSendAuthenDataTime += ...` is one step. The test of the
  clock and the three statements of `startTimeCounter` are four steps, taken by the main
  thread or a watchdog. A clock that was replaced without an interrupt goes on
  unseen and is left out: it sets marks, which `SetMark` may do at any time. How often something
  sets the mark is left open (`SetMark`), and so is the delay it is set to, up to a
  period. The handler that starts the scheduler again after an exception is left
  out: nothing in the job's loop throws, since what it sends runs in a coroutine
  with a handler of its own (`Screen` 495). What `sendDataAuthenBlock` sends is `Push` of `Telemetry`.
- In `LogFiles` what a file holds, the deletion of old ones and `pushReportFile`
  are left out.

## 3. Properties and runs

`IInv`, `TInv` and `StreamInv` are inductive invariants of section 5; TLC checks them
as well. `AsmInv`, `LoneInv` and `LogType`, which only serve the proofs, are in no run.

| Property | What it says |
|---|---|
| `LiveIdIsRow` | the id calls use is the id on the row the finish is written to |
| `SidOfStudent` | an id on a row is of a session the server opened for that row's student |
| `OfflineFinishKept` | a finished offline session is never put back to running by the recovery's old copy |
| `RunningNotPushed` | the recovery never opens a session the user is still in |
| `ResendLeavesClosed` | a queued finish leaves the queue only when the server has closed its session, unless it is the session in memory |
| `ImplementsTable` | the sessions' life is one `SessionTable` allows: no row is lost or comes back, an id is given to the right row, the user's running session is left alone |
| `ResendableIsSent` | a saved finish with its data and an id (or the right to one) is sent when the network stays, whatever row stands before it |
| `FirstSaveIsResendable` | a finish saved for a session that was running has its data and an id, or the right to one |
| `OfflineFinishStaysResendable` | between saving and sending, nothing spoils the finish of an offline session that is not in memory |
| `LoneFinishIsResendable` | with one row, finishes that do not overlap and a server that does not end ids it never issued, every saved finish has what it takes to be resent |
| `ClosedIsOver` | the app closes a session on the server only for a row that is in memory or over |
| `RecoveryCanGoOn` | while the recovery is at a row, there is a case for that row, and no network is needed to go on |
| `RecoveryAdvances` | each step of the recovery takes it nearer its end, and nothing meanwhile gives it more to do |
| `RecoveryEnds` | `recoverUploadInProgress` is given back |
| `RecoveryNamesOwnSession` | a sample sent by the recovery goes under the id of the session it is filed under |
| `DataBeforeFinish` | a recovered session is marked sent only after the positions listed for it |
| `UploadEnds` | `isReUploadDataInSession` is given back, or left set by a finish that failed |
| `LiveSampleIsTried` | an unsent sample of a session that goes on online is sent |
| `OneFramePerImage` | the image passed on holds packets of one frame |
| `WholeUnlessLost` | it holds all of them, unless one of that frame was lost |
| `ImagesAdvance` | each image passed on is of a later frame than the one before |
| `StreamInv` | a transfer in flight is held by the stream and its callback finds it; one that is freed while it is in flight or found, and so used when freed, is one of an unplugged camera; after a stop nothing is in flight and nobody sleeps on a wake-up that has passed |
| `HeldIsUnderWay` | what `uvc_stream_stop` waits for is in flight or in its callback: no transfer is forgotten |
| `StopMissesOne` | when the stop waits, at most one transfer in flight was not cancelled |
| `ImplementsSource` | the stream is a `FrameSource` |
| `StopEnds` | `uvc_stream_stop` returns, except when the camera went away while a transfer was being cancelled, or a freed one is used |
| `NoFrameTwice` | no buffer is recycled twice, or while a queue or another thread has it |
| `LostOnlyByStop` | a buffer gets lost only by the stop of a preview, one at a time |
| `FramesInOrder` | frames go through the preview in their order, across its two queues and three threads |
| `NobodySleepsOnFrame` | while a thread sleeps, the queue it takes frames from is empty |
| `WaitEnds` | `setFrameCallback` returns, if the capture thread is still to see that it should stop, or a frame comes; `stopPreview` returns, if both threads wait when it signals. Both unless a capture thread of an earlier preview goes on |
| `NightTimeIsExact` | the computed night time counts every unit of the session in the window once, and no other |
| `OnlySentIsMarked` | a row is marked only when the server has its log, except by a push of another session's log |
| `LogRecoveryEnds` | `recoverUploadLogFiles` is given back |
| `OneScheduler` | at most one authentication job goes on beyond its next sleep |
| `NothingPartsThem` | a live clock loses the active job beside it only with its own life |
| `AuthenticationsRecur` | while the session lasts, the screen is not paused, nothing sets the mark anew and no clock lives without a job (`clock_alone`), authentications are sent again and again |

| Run | Instance | Shows |
|---|---|---|
| `resend` | 2 ids, 2 rows, 2 students, 2 finish coroutines, 1 process death | `IInv`, `LiveIdIsRow`, `SidOfStudent`, `ResendLeavesClosed`, `OfflineFinishKept`, `RunningNotPushed`, `FirstSaveIsResendable`, `OfflineFinishStaysResendable`, `ClosedIsOver`, `RecoveryCanGoOn`, `RecoveryAdvances`, and the refinement of `SessionTable` |
| `live` | 1 id, 2 rows, 1 process death, fairness | `LoneFinishIsResendable`, `ResendableIsSent`, `RecoveryEnds` |
| `gps` | 2 ids, 2 rows, 1 position | `TInv`, `RecoveryNamesOwnSession`, `DataBeforeFinish` |
| `auth` | 1 id, 2 rows, 1 authentication, fairness | `UploadEnds`, `LiveSampleIsTried` |
| `parts` | see below, fairness | the properties of the six parts |

and one run for each of the differences of section 4.

*`resend`, `live`.* Two rows are what the code tells apart: the last row, which the
recovery drops when it runs, and a row before it. Two ids let a row's session be
replaced by another one while an answer about the first is on its way. Two finish
coroutines are the dialog and the auto-logout; one process death puts a restart
between any two steps. The rows, the ids and the process deaths are bounded by
`MaxRow`, `Sid` and `MaxRestart`; no other variable grows. All of it at once is too
much for one run: the constraint `OneAtATime` of `MCSessionSync` looks at a second
id, a second student, overlapping finishes and the restart one at a time, the last
two with one row, and with a second id not at a fetch and a recovery together. The
theorems need none of this. In `live` a restarted process has one row (`FairSpec`).

*`gps`, `auth`.* Samples do not meet: no action reads the state of another sample,
except the emptiness of a list. One sample at a time is therefore enough, and the
theorems hold for any number.

*`parts`.* 5 frames of 3 packets, buffers for 4, at most 2 packets lost in a row:
frames of both ids overtake each other in both buffers. 2 transfers, 2 streamings
and 2 frames: one transfer can be in its callback while the other is cancelled,
and a second start meets what the first left. 2 previews, 3 frames, a queue of 2
and a pool of 3: the queue overflows, the pool runs empty and full, and a capture
thread outlives its preview; a second preview has one frame and no callback, and
the third frame comes without one (`Preview` of `MCParts`). In a second streaming the
camera stays and sends one frame (`Stream`). A day of 6 units, windows from and to
any hour, and sessions of up to 16 units, which meet up to four nights. 2 logs, of which
one is finished when the other is opened. 2 jobs, 1 call besides the clock and the
watchdogs, a period of 1: a cancelled job meets its successor. 2 watchdogs, so that a
cancelled one meets its successor and the main thread while a clock is started;
while one is started nothing sets or sends and no time passes, and the second watchdog is
looked at without a session and a mark (`Schedule`). The theorems need none of this.

### Fairness

`FairSpec` assumes: the recovery coroutine and a finish that has been saved go
on (`WF`), which the dispatcher gives every coroutine; connectivity events recur
(`WF` on `NetworkAvailable`), which is what the code itself relies on, since the
recovery has no timer; and a call that is repeated for ever succeeds some time
(`SF` on `RecStart` and `RecFinish`). Users, the administrator and the network
are not fair: nobody has to finish a session, and the properties are about runs
in which the network stays (`<>[]net`). `RecoveryEnds` needs no network: the
calls fail and the loop goes on.

For the telemetry, `FairSpec` of `MCTelemetry` assumes that the coroutines of the
re-upload, the recovery and a push that has begun go on (`WF`); that the
re-upload is called again and again while a session is in memory, which the
session clock does with each authentication; and that sending one sample,
repeated for ever, succeeds some time (`SF`). Process deaths are not bounded there; the properties about one
session assume that it stays in memory.

The number of ids is bounded in the model and not on the server: a row that
waits for an id when all are used is excused (`IdsUsedUp`).

`SavedFinishIsSent` does not hold with two rows and a forced logout (`never_sent`,
below). `ResendableIsSent` is what holds in general. The first finish saved is of that
kind (`FirstSaveIsResendable`), and so is every one with one row, finishes that do
not overlap and a server that does not end ids it never issued
(`LoneFinishIsResendable`).

For the parts, `FairSpec` of `MCParts` assumes that threads that can go on do (`WF`):
of the stream, the event thread with a transfer it has found and in a callback, the
user thread, the stop, libusb's handling of a disconnect and of each transfer that
ended, with a timeout for those that did not; a camera that is there answers a
cancelled transfer. Nothing is assumed once freed memory was used. Of the preview,
the calling thread, the preview thread, the end of a frame callback, and each
capture thread. Frames are not fair: the camera may send none, which is what
`StopEnds` and `WaitEnds` are about. Of the logs, the recovery that was started. Of
the schedule, time, the watchdogs, whoever is starting a clock, the clock's end and
each job, and none of the users' calls.

## 4. Where the code and its documentation differ

Each is a run that TLC must find violated; the finding in `PROJECT.json` quotes
the statement.

| Run | Statement | What happens |
|---|---|---|
| `failed_finish` | every failing path saves the session | an exception, for example a timeout of the logout image, closes the screen and saves nothing |
| `closed` | state 4 only when the server confirms | a late answer about one session ends another |
| `never_sent` | a saved finish is resent | an offline session saved over state 4 is in state 3 without an id, which no step of the recovery handles |
| `unsent_marked` | data whose push failed are pushed again | what the broker answers to a queued sample is not looked at: it is marked sent |
| `set_callback` | `setFrameCallback` waits until capturing has finished | the capture thread tests `isCapturing` before it takes the mutex: it misses the signal, and without a further frame both wait for ever |
| `clock_alone` | the life of the scheduler is bound to the clock's: a resume starts both, a pause cancels both | a pause between the two statements that start them (`Screen` 323, 324), the second run by the watchdog's thread, cancels the job and misses the clock; the tests at 483, 1840 and 3368 find that clock alive and start neither again |
| `freed_in_flight` | a transfer that was submitted and has not completed is not freed (`libusb/libusb/io.c` 1327) | with the camera unplugged the stop frees transfers in flight, whose URBs are still to be reaped; the event thread may have found one, and uses it (`UseFreed`) |

Other differences were met while modelling and have no run of their own; the
models contain the behaviour:

- A running session opened offline is never pushed to the server by the recovery, which
  leaves the last row out (`VM` 193), although docs/night-and-auto-time.md:147-149
  says it gets its thresholds that way; `RunningStaysLocal` proves it (`ListRows`).
- The recovery of logs looks for a name without the suffix that every session's file has
  (`VM` 509), so that no failed log is sent again (`RecoveryFile`).
- A session resumed online takes over the state of an offline session left in
  memory, so that its finish is saved as state 2 although it has an id
  (`ContinueOnline`).
- A finish that fails after a forced logout saves 3 over 4, which is meant to be
  final (`SaveFinish`). `never_sent` is one consequence. A second finish of an
  offline session still in memory has the same end: it saves 3 over 2, without an id.
- A trigger of the recovery, also the one by hand, is dropped while an older
  list is worked through (`RecTrigger`).
- A re-upload goes on for a session that is no longer the last, so that it and
  the recovery send the same samples (`UpSend`, `RecGoOn`).
- An authentication whose image could not be uploaded is in no list again once
  its session has been finished online (`UpStart`, `RecList`).
- `pushLogFile` marks the session in memory when the upload has ended, which is
  none, or the next one (`PushMarks`).
- The history screen reports a failed upload after a success, because the mark
  fails without a session in memory (`VM` 443).
- `stopPreview` signals without the mutex, and the preview thread waits without
  testing `isRunning`: the wake-up may be lost. No frame signals once `mIsRunning` is
  FALSE, so that the stop then waits for ever (`StopSignals`, `WaitPreviewFrame`).
  `WaitEnds` says that threads which already wait when it signals are woken.
- `mIsRunning` stays TRUE after a preview that could not be started (`StartStream`).
- A Java frame callback may be replaced while it runs: the wait of
  `setFrameCallback` is skipped when `capturing` was not yet set, and ended by any
  signal (`SetFrameCallback`, `ReplaceCallback`).
- The loop of `usbi_handle_disconnect` that ended the transfers in flight is
  commented out: one is ended, and the others are left to their timeout or to the stop,
  which frees them (`Disconnect`, `CancelNext`). A cancelled one among them is reported by
  nobody, and the stop waits for ever, as `StopEnds` excuses.
- A cancelled job that has found its mark past adds a period to a mark set
  meanwhile (`Screen` 295), so that the next authentication comes a period late
  (`JobFires`).
- A call begun before a pause starts the scheduler after it (`Screen` 3381),
  although the comment at 320-322 says that the pause cancels it (`StartMarked`).

## 5. What is proved

All theorems hold for every value of the constants that meets the named
assumptions of the modules.

`SessionSyncProofs` proves, for any set of ids, students and finish coroutines
and any bounds, from the named assumptions of `SessionSync` (the null id is no
id, the bounds are numbers, there is a student, `UnknownIdIsEnded` is a
Boolean):

| Theorem | Property |
|---|---|
| `TypeCorrect` | `TypeOK` |
| `Invariance` | `IInv` |
| `LiveIdCorrect` | `LiveIdIsRow` |
| `SidCorrect` | `SidOfStudent` |
| `OfflineFinishStays` | `OfflineFinishKept` |
| `RunningStaysLocal` | `RunningNotPushed` |
| `ResendIsTruthful` | `ResendLeavesClosed` |
| `FirstSave` | `FirstSaveIsResendable` |
| `OfflineFinishIsResent` | `OfflineFinishStaysResendable` |
| `LoneInvariance` | `LoneInv` |
| `LoneFinishCorrect` | `LoneFinishIsResendable` |
| `RecoveryIsNeverStuck` | `RecoveryCanGoOn` |
| `RecoveryMovesOn` | `RecoveryAdvances` |
| `OnlyOverIsClosed` | `ClosedIsOver` |
| `TableImplemented` | `ImplementsTable` |
| `CopiesAreSound` (`TelemetryProofs`) | `TInv` |
| `RecoveryNamesOwn` (`TelemetryProofs`) | `RecoveryNamesOwnSession` |
| `FinishComesLast` (`TelemetryProofs`) | `DataBeforeFinish` |
| `AsmInvariance` (`FrameAssemblyProofs`) | `AsmInv` |
| `ImageIsOfOneFrame` (`FrameAssemblyProofs`) | `OneFramePerImage` |
| `ImageIsWhole` (`FrameAssemblyProofs`) | `WholeUnlessLost` |
| `ImagesAreNewer` (`FrameAssemblyProofs`) | `ImagesAdvance` |
| `StreamInvariance` (`UvcStreamProofs`) | `StreamInv` |
| `NothingIsForgotten` (`UvcStreamProofs`) | `HeldIsUnderWay` |
| `OnlyOneIsMissed` (`UvcStreamProofs`) | `StopMissesOne` |
| `SourceImplemented` (`UvcStreamProofs`) | `ImplementsSource` |
| `PreviewTypeCorrect` (`UvcPreviewProofs`) | `PreviewType` |
| `NoFrameIsTwice` (`UvcPreviewProofs`) | `NoFrameTwice` |
| `StopLosesOne` (`UvcPreviewProofs`) | `LostOnlyByStop` |
| `FramesStayInOrder` (`UvcPreviewProofs`) | `FramesInOrder` |
| `NoWakeUpIsLost` (`UvcPreviewProofs`) | `NobodySleepsOnFrame` |
| `LogTypeCorrect` (`LogFilesProofs`) | `LogType` |
| `MarksAreTrue` (`LogFilesProofs`) | `OnlySentIsMarked` |
| `OneSchedulerHolds` (`AuthScheduleProofs`) | `OneScheduler` |
| `SchedulerStays` (`AuthScheduleProofs`) | `NothingPartsThem` |
| `NightTimeCorrect` (`NightTimeProofs`) | `NightTimeIsExact` |

`TypeCorrect` is a step of `Invariance`; no run checks `TypeOK` on its own, since
`IInv` contains it.

The properties are not inductive: whether the recovery writes the right thing
depends on the copy it took many steps earlier. `IInv` says what stays true of
that copy and of the calls under way.

- `FreshRows`: rows not inserted yet are blank.
- `LoginSound`: the id a login holds is of a session opened for its student.
- `LiveSound`: the id in memory is the row's, and a session in memory without an
  id is the last row. This is why dropping the last row protects it.
- `SnapshotSound`: the copy of a row has the row's id; if the row has none, the
  copy is right about whether the session is over, and a running one is not the
  last row and not in memory. This is why the old copy may be written back.
- `ReplySound`: a reply the recovery waits for is about its current row; the id
  in a start reply is of a session opened for the row's student, and after a
  finish request the row's session is closed.
- `SidOfStudent`, as above.

The proof has a lemma for each operation several actions share (`InsertLiveRow`,
`RecordEnd`, `RecAdvance`, ...), one step per action for `TypeOK`, and the rest of
`IInv` by groups of actions that disturb the same parts. The action properties
follow from `IInv` by the three actions that write a row's state (`RowChange`).

What is saved for a finish depends on the state in memory, which another row may
have left there. `LoneInv` adds to `IInv` what that needs:

- `ResendSound`, for any table: a row without an id is not in state 1; for an
  offline session memory and table have the same state; and the recovery's copy
  does not know of a finish the table has not. `FirstSave` follows from it.
- `LoneSound`, under `LoneCalls` (one finish coroutine, `UnknownIdIsEnded` is FALSE) and
  with one row: while that row has no id nobody was told that its session is over
  (`Untold`), it is saved once while it is in memory (`SavedOnce`), and the recovery has
  it on its list only when it was finished (`ListedIsOver`).

Each of the three conditions of `LoneFinishCorrect` is needed: `never_sent` takes a
second row, and TLC finds a counterexample with two finish coroutines, and one with
`UnknownIdIsEnded`. With them the theorem holds through any number of process deaths.

That the recovery ends is proved in two halves. `RecoveryIsNeverStuck`: as long as it
is at a row, it has a step that needs no network. `RecoveryMovesOn`: each such step
takes the row off the list or leaves fewer of the at most four steps a row takes
(`StepsLeft`), and no other step of the system touches the list. The list is finite,
so both together are the argument for `RecoveryEnds` with any number of rows; the last
step, from the fairness of the coroutine to the end, is TLC's.

`TableImplemented` maps each step to a step of `SessionTable` or a stutter, with one
lemma per abstract action. It needs `IInv`: that the recovery gives an id only
to a row that is neither in memory nor the last, or is finished, is
`SnapshotSound`.

`TelemetryProofs` assumes that the null id is no id, that the bound on rows is a
number and that no sample is both a position and an authentication. `TInv` adds
to the types:

- `FiledOnce`: a sample whose push has not ended has no row. Without it a late
  push could move a sample that the recovery has listed.
- `CopiesSound`: the recovery's copy of a row has the row's id, and its list holds
  only samples of that row. Nobody else gives an id to a row there is.
- `LeftSound`: what is left to send is of the current row's list, that row has an
  id, and the positions already handled are marked.

The refinement is what makes these theorems say something about the session
life as it is: `Telemetry` uses of the sessions what `SessionTable` promises, and
`SessionSync` is proved to keep that promise.

`FrameAssemblyProofs` assumes that the buffer takes a frame (`FrameFits`) and that no
whole frame is lost in a row (`NoWholeFrameLost`); without the second a packet may be
taken for one of the frame before. `AsmInv` adds to the types:

- `BufferIsOfLast`: the packets being put together are of the frame whose bit is
  `fid`, which is the last one received, and as many as `got_bytes` says;
- `PresentedIsOlder`: what is held or passed on is of one frame each, which is
  older than the one being put together. This is why a swap makes images advance;
- `WholeSoFar`: a frame of which nothing was lost has all its packets up to the
  last one received.

`UvcStreamProofs` needs only that there is a transfer. `StreamInv` adds:

- `FlightIsHeld`: a transfer in flight is in `transfers[]`, so the stop waits for it, and
  one whose URB is out is in flight, unless the stop has freed it, which it does only
  with the camera unplugged;
- `CallbackFindsTransfer`: the transfer whose callback runs is in `transfers[]` until it
  is dropped, and not in flight; what the event thread has found before that is in
  flight, or was freed after the camera had been unplugged. Only then is freed memory used;
- `StoppedIsQuiet`: after the stop has returned no transfer and no thread is left;
- `CtlState`: where the controlling thread is agrees with `running` and with what it
  has still to submit or cancel;
- `NobodySleepsOn`: who sleeps on `cb_cond` sleeps for a reason that still holds.

`HeldIsUnderWay` and `StopMissesOne` are the safety half of `StopEnds`: what the stop waits
for is in flight or in its callback, and all but one of those in flight have been
cancelled. The proof of `StopMissesOne` has to know that a callback that has seen
`running` before the stop cleared it is the only one still to submit its transfer again.

From `StreamInv` follows, step by step, that the stream implements `FrameSource`: the close
of the source is the join of the user thread, when no callback can be running.

`UvcPreviewProofs` counts buffers. `Lost` is what is left when those in the pool, in a
queue and with a thread are taken from those there are. Every step keeps it, but
for the one that drops a frame of a preview that has been stopped, which adds one.
That needs to know who has a frame: `ThreadFrames` says that a thread has one
exactly between taking it and passing it on, and that a thread begins where none
is at work. The number of capture threads with a frame is a cardinality, which
changes by one when one thread goes on (`HoldingMoves`). It holds for any sizes of
queue and pool, any number of previews and callbacks, with or without spurious
wake-ups.

Wake-ups: `NobodySleepsOnFrame` holds because the thread that puts a frame into the
queue wakes the sleepers in the same step, under the mutex, and a thread goes to sleep
only when it has found its queue empty. For the captured frame it has to wake all of
them: `setFrameCallback` and capture threads of other sessions sleep on the same
condition, and a signal to one might go to the wrong one.

The order of frames adds to that invariant `StreamsInBetween` (the camera streams only
between the start and the stop the preview thread makes, and the queues are empty
when a preview begins) and `StationsOrdered`, which is `FramesInOrder` with what it
leaves open: the copy about to be queued is newer than everything behind the queue,
even when the queue is empty, and nothing is newer than what the camera sent last.
Every step is shown to be one of seven that a frame may make between the stations
(`StationStep`), and each of the seven to keep their order. The first frame of a
stream has a small number again; that the stations are empty then is what
`StreamsInBetween` is for.

`LogType` says among the types that the recovery's flag is set just while it runs.
`LogFilesProofs` adds that every file, on the disk, recorded or on its
way, is named after a session there is (`FilesOfSessions`). `MarksAreTrue` needs
`SentIsAtServer`: between the upload and the mark, a push or the recovery has logs the
server took. The exception `OnlySentIsMarked` makes is the code's: `pushLogFile` marks the
session that is in memory when the upload has ended.

`AuthScheduleProofs` needs no strengthening but the types: `startSendAuthenDataScheduler`
cancels the job there is before it starts the next, it is synchronized, and every
other way to a job goes through it. What this does not say is that the cancelled
job stops at once: see the differences of section 4. `SchedulerStays` is part of the safety
half of `AuthenticationsRecur`: a clock that lives beside an active job keeps one until it is
interrupted. That every live clock has a job does not hold, as `clock_alone` shows: the
clock may be started after the job it goes with was cancelled.

`NightTimeProofs` assumes that a day has a length (`DayIsPositive`) and that
`MAX_NIGHT_WINDOW_DAYS` passes of the loop reach the end of the session
(`DurationIsCovered`). The theorem is an induction over the passes of the loop and one
over time: the induction principle itself takes an operator, which the provers
cannot instantiate, but a set of naturals that has 0 and with each number the next is
`Nat`, which follows from the library's `WFMin` (`SetInduction`). Over the passes it shows that
the recursive total is defined, and what becomes of it when one day adds one unit
more (`TotalOfBump`). Over time it shows that a session longer by a unit has a night longer
by one just when that unit is in the window (`NightTimeStep`), because the unit is in the
window of exactly one of the days the loop looks at (`OneDayHits`).

Only model-checked: the temporal properties `ResendableIsSent`, `RecoveryEnds`, `UploadEnds`,
`LiveSampleIsTried`, `StopEnds`, `WaitEnds`, `LogRecoveryEnds` and `AuthenticationsRecur`. Liveness
under fairness is out of the prover's reach; for `RecoveryEnds`, `StopEnds` and
`AuthenticationsRecur` what the previous paragraphs name of their safety is proved. Every invariant and
every action property that a passing run checks is proved as well.

## 6. Not modelled, and why

- *Interruption check* (`VM` 600-660): the increment of the counter and its reading
  are two steps of one call; what follows depends on thresholds and prompts of the
  screen. It is listed as a hazard.
- *The screen's dialogs and progress displays*: whether each finish is answered
  on the screen is listed as a hazard and not modelled.
- *GPS filter*: floating-point rules without interleaving.
- *Face recognition, libjpeg-turbo*: image processing.
- *Camera service, NFC, GPS devices*: layers over Android services.
- *History, configuration, teacher login, Excel report*: single calls and
  formatting, without state that outlives them. The older Java application is
  kept in the tree and replaced by the Kotlin one.
- *The rest of the native code*: negotiation and descriptors of libuvc, conversion
  of images, libusb's backends of other systems, and a second copy of the
  libraries under `src/app/src/main/jni`, are third-party code. They are more than
  320000 lines, against which the core modelled here is small; what DAT itself
  drives, the path of a frame from the transfer to the callback, is modelled.

What remains worth doing, in this order: the screen's dialogs about a finish, that
every finish is answered; the interruption check with its prompts; the camera service
with its clients.
