----------------------------- MODULE UvcStream -----------------------------
(***************************************************************************)
(* Streaming from a USB camera: the transfers libuvc keeps in flight       *)
(* (libuvc/src/stream.c), what libusb does with them (libusb/io.c and      *)
(* os/linux_usbfs.c), and the three threads that meet there: the one that  *)
(* starts and stops the stream, libusb's event thread, which runs the      *)
(* transfers' callback, and the user thread, which runs the frame callback.*)
(* The device may be unplugged at any time. How packets become frames is   *)
(* the subject of FrameAssembly: here a payload completes a frame or not.  *)
(***************************************************************************)
EXTENDS Integers, FiniteSets

CONSTANTS
  Buffers,   \* LIBUVC_NUM_TRANSFER_BUFS
  MaxHold,   \* frames completed in one streaming (bound)
  MaxStart   \* how often streaming is started (bound)

ASSUME BuffersArePositive == Buffers \in Nat \ {0}
ASSUME StreamBounds == MaxHold \in Nat /\ MaxStart \in Nat

Transfer == 1 .. Buffers
NoTransfer == 0

VARIABLES
  device,      \* "attached"; "unplugged": the kernel knows; "gone": libusb has
               \* handled the disconnect
  running,     \* strmh->running
  held,        \* the transfers i with strmh->transfers[i] # NULL
  flight,      \* the transfers libusb has marked USBI_TRANSFER_IN_FLIGHT
  urbs,        \* those whose URBs are still to be reaped from the kernel
  cancelling,  \* those of them marked USBI_TRANSFER_CANCELLING
  timedOut,    \* those of them that a timeout cancelled
  holdSeq,     \* strmh->hold_seq
  lastSeq,     \* last_seq of the user thread
  ctl,         \* where the controlling thread is
  next,        \* the transfer it submits or cancels next
  ev, evT,     \* where the event thread is, and the transfer it is busy with
  user,        \* where the user thread is
  asleep,      \* the threads that wait on strmh->cb_cond
  starts       \* how often streaming was started

usbVars == <<device, flight, urbs, cancelling, timedOut>>
ctlVars == <<ctl, next, starts>>
evVars == <<ev, evT>>
userVars == <<user, lastSeq>>
streamVars == <<usbVars, running, held, holdSeq, ctlVars, evVars, userVars, asleep>>

CtlAt == {"closed", "submit", "open", "stop", "cancel", "wait", "join"}
\* Before the callback, where the event thread has found a transfer and does not
\* hold its lock, and in the callback
FoundAt == {"reaped", "picked", "due"}
CallbackAt == {"payload", "check", "resubmit", "failed", "orphan", "drop"}
EvAt == {"idle", "undefined"} \cup FoundAt \cup CallbackAt
UserAt == {"none", "loop", "wait", "callback", "ended"}

StreamType ==
  /\ device \in {"attached", "unplugged", "gone"}
  /\ running \in BOOLEAN
  /\ held \subseteq Transfer /\ flight \subseteq Transfer /\ urbs \subseteq Transfer
  /\ cancelling \subseteq flight /\ timedOut \subseteq cancelling
  /\ holdSeq \in 0 .. MaxHold /\ lastSeq \in 0 .. MaxHold
  /\ ctl \in CtlAt /\ next \in 1 .. Buffers + 1
  /\ ev \in EvAt /\ evT \in Transfer \cup {NoTransfer}
  /\ user \in UserAt
  /\ asleep \subseteq {"ctl", "user"}
  /\ starts \in 0 .. MaxStart

StreamInit ==
  /\ device = "attached"
  /\ running = FALSE
  /\ held = {} /\ flight = {} /\ urbs = {} /\ cancelling = {} /\ timedOut = {}
  /\ holdSeq = 0 /\ lastSeq = 0
  /\ ctl = "closed" /\ next = 1 /\ starts = 0
  /\ ev = "idle" /\ evT = NoTransfer
  /\ user = "none"
  /\ asleep = {}
-----------------------------------------------------------------------------
(* libusb *)

\* pthread_cond_broadcast(&strmh->cb_cond)
Broadcast == asleep' = {}

\* strmh->cb_mutex is held over more than one step only while the transfers
\* are cancelled.
Unlocked == ctl # "cancel"

\* libusb_submit_transfer of a transfer that is not in flight. What stands for
\* its URBs here is the last of them.
SubmitOk(t) == /\ device = "attached"
               /\ flight' = flight \cup {t} /\ urbs' = urbs \cup {t}
               /\ UNCHANGED <<device, cancelling, timedOut>>

\* The event thread has found t and has not locked it yet.
Found(at, t) == /\ ev = "idle" /\ ev' = at /\ evT' = t
                /\ UNCHANGED <<running, held, flight, cancelling, timedOut, holdSeq,
                               ctlVars, userVars, asleep>>

\* reap_for_handle: whatever libusb knows of its transfer, the URB leads to it.
ReapUrb(t) == /\ device # "gone" /\ t \in urbs
              /\ Found("reaped", t)
              /\ urbs' = urbs \ {t}
              /\ UNCHANGED device

\* An URB that ended with the device is reaped and reported to nobody.
ReapShutdown(t) == /\ ev = "idle" /\ device = "unplugged" /\ t \in urbs
                   /\ urbs' = urbs \ {t}
                   /\ UNCHANGED <<device, flight, cancelling, timedOut, running, held,
                                  holdSeq, ctlVars, evVars, userVars, asleep>>

\* handle_timeouts_locked finds a transfer that is in flight after five seconds.
TimeoutDue(t) == /\ t \in flight \ cancelling
                 /\ Found("due", t)
                 /\ UNCHANGED <<device, urbs>>

Unplug == /\ device = "attached"
          /\ device' = "unplugged"
          /\ UNCHANGED <<running, held, flight, urbs, cancelling, timedOut, holdSeq,
                         ctlVars, evVars, userVars, asleep>>

\* usbi_handle_disconnect picks one of the transfers in flight. The loop over all
\* of them is commented out, and nothing is reaped from the device any more.
Disconnect ==
  /\ ev = "idle" /\ device = "unplugged"
  /\ device' = "gone" /\ urbs' = {}
  /\ \/ \E t \in flight : Found("picked", t)
     \/ /\ flight = {}
        /\ UNCHANGED <<running, held, flight, cancelling, timedOut, holdSeq,
                       ctlVars, evVars, userVars, asleep>>

\* A transfer ends and its callback is called.
Complete(t, at) == /\ flight' = flight \ {t}
                   /\ cancelling' = cancelling \ {t}
                   /\ timedOut' = timedOut \ {t}
                   /\ ev' = at /\ evT' = t
                   /\ UNCHANGED <<device, urbs, running, held, holdSeq, ctlVars,
                                  userVars, asleep>>

\* What was reaped brings a payload, an error that is retried or one that is not.
\* A transfer that was cancelled is reported as cancelled, or as if it had not
\* been when it had been through, or as timed out when libusb has cancelled it.
ReportReaped == /\ ev = "reaped" /\ evT \in held
                /\ \E at \in IF evT \in timedOut THEN {"check"}
                             ELSE {"payload", "check", "drop"} : Complete(evT, at)

\* The transfer that was picked is reported as NO_DEVICE.
ReportPicked == ev = "picked" /\ evT \in held /\ Complete(evT, "drop")

\* handle_timeout cancels the transfer. If the device is not there, or the URB
\* has ended, it is marked all the same.
CancelDue == /\ ev = "due" /\ evT \in held
             /\ ev' = "idle" /\ evT' = NoTransfer
             /\ IF evT \in cancelling THEN UNCHANGED <<cancelling, timedOut>>
                ELSE /\ cancelling' = cancelling \cup {evT}
                     /\ \/ device = "attached" /\ timedOut' = timedOut \cup {evT}
                        \/ UNCHANGED timedOut
             /\ UNCHANGED <<device, flight, urbs, running, held, holdSeq, ctlVars,
                            userVars, asleep>>

\* The stop has freed the transfer meanwhile, or before its URB was reaped: the
\* event thread uses freed memory, and what follows is not modelled.
UseFreed == /\ ev \in FoundAt /\ evT \notin held
            /\ ev' = "undefined" /\ evT' = NoTransfer
            /\ UNCHANGED <<usbVars, running, held, holdSeq, ctlVars, userVars, asleep>>
-----------------------------------------------------------------------------
(* The callback of the transfers, in the event thread *)

\* _uvc_process_payload: the payload completes a frame, or does not.
ProcessPayload ==
  /\ ev = "payload" /\ ev' = "check"
  /\ \/ /\ holdSeq < MaxHold /\ Unlocked
        /\ holdSeq' = holdSeq + 1
        /\ Broadcast
     \/ UNCHANGED <<holdSeq, asleep>>
  /\ UNCHANGED <<usbVars, running, held, ctlVars, evT, userVars>>

\* Mutant: it is submitted again whether or not the stream is running.
CheckNothing == /\ ev = "check" /\ ev' = "resubmit"
                /\ UNCHANGED <<usbVars, running, held, holdSeq, ctlVars, evT,
                               userVars, asleep>>

\* Whether to submit the transfer again is decided without the lock.
CheckRunning == /\ ev = "check"
                /\ ev' = IF running THEN "resubmit" ELSE "orphan"
                /\ UNCHANGED <<usbVars, running, held, holdSeq, ctlVars, evT,
                               userVars, asleep>>

Resubmit == /\ ev = "resubmit"
            /\ \/ SubmitOk(evT) /\ ev' = "idle" /\ evT' = NoTransfer
               \/ ev' = "failed" /\ UNCHANGED <<usbVars, evT>>
            /\ UNCHANGED <<running, held, holdSeq, ctlVars, userVars, asleep>>

\* Mutant: nobody is woken.
FreeTransferSilently == /\ ev \in {"drop", "failed", "orphan"} /\ Unlocked
                        /\ held' = held \ {evT}
                        /\ ev' = "idle" /\ evT' = NoTransfer
                        /\ UNCHANGED <<usbVars, running, holdSeq, ctlVars, userVars, asleep>>

\* A transfer that ended for good, was not taken again or is not wanted any
\* more is freed, unless strmh does not know it, and whoever waits is woken.
FreeTransfer == /\ ev \in {"drop", "failed", "orphan"} /\ Unlocked
                /\ held' = held \ {evT}
                /\ Broadcast
                /\ ev' = "idle" /\ evT' = NoTransfer
                /\ UNCHANGED <<usbVars, running, holdSeq, ctlVars, userVars>>
-----------------------------------------------------------------------------
(* The user thread: _uvc_user_caller *)

\* Under the lock: it ends, waits for a new frame, or takes a copy of it.
UserLoop ==
  /\ Unlocked
  /\ \/ user = "loop"
     \/ user = "wait" /\ "user" \notin asleep
  /\ IF ~running
     THEN user' = "ended" /\ UNCHANGED <<lastSeq, asleep>>
     ELSE IF lastSeq = holdSeq
          THEN user' = "wait" /\ asleep' = asleep \cup {"user"} /\ UNCHANGED lastSeq
          ELSE user' = "callback" /\ lastSeq' = holdSeq /\ UNCHANGED asleep
  /\ UNCHANGED <<usbVars, running, held, holdSeq, ctlVars, evVars>>

CallbackReturns == /\ user = "callback" /\ user' = "loop"
                   /\ UNCHANGED <<usbVars, running, held, holdSeq, ctlVars,
                                  evVars, lastSeq, asleep>>
-----------------------------------------------------------------------------
(* The controlling thread *)

\* uvc_start_streaming up to the creation of the user thread
StartStreaming ==
  /\ ctl = "closed" /\ device = "attached" /\ starts < MaxStart
  /\ starts' = starts + 1
  /\ running' = TRUE
  /\ held' = Transfer
  /\ holdSeq' = 0
  /\ user' = "loop" /\ lastSeq' = 0
  /\ ctl' = "submit" /\ next' = 1
  /\ UNCHANGED <<usbVars, evVars, asleep>>

Submit == /\ ctl = "submit" /\ next <= Buffers
          /\ SubmitOk(next)
          /\ next' = next + 1
          /\ UNCHANGED <<running, held, holdSeq, ctl, starts, evVars, userVars, asleep>>

\* Mutant: the rest stays allocated.
SubmitFailsKeepsRest == /\ ctl = "submit" /\ next <= Buffers
                        /\ ctl' = "open" /\ next' = 1
                        /\ UNCHANGED <<usbVars, running, held, holdSeq, starts,
                                       evVars, userVars, asleep>>

\* After a failure the rest is freed, and the stream goes on with what it has.
SubmitFails == /\ ctl = "submit" /\ next <= Buffers
               /\ held' = held \ (next .. Buffers)
               /\ ctl' = "open" /\ next' = 1
               /\ UNCHANGED <<usbVars, running, holdSeq, starts, evVars, userVars, asleep>>

Started == /\ ctl = "submit" /\ next = Buffers + 1
           /\ ctl' = "open" /\ next' = 1
           /\ UNCHANGED <<usbVars, running, held, holdSeq, starts, evVars, userVars, asleep>>

\* uvc_stream_stop, before it takes the lock
Stop == /\ ctl = "open" /\ ctl' = "stop"
        /\ running' = FALSE
        /\ UNCHANGED <<usbVars, held, holdSeq, next, starts, evVars, userVars, asleep>>

Lock == /\ ctl = "stop" /\ ctl' = "cancel" /\ next' = 1
        /\ UNCHANGED <<usbVars, running, held, holdSeq, starts, evVars, userVars, asleep>>

\* It cancels every transfer held. libusb answers NOT_FOUND for one that is not
\* in flight or is cancelled already, and takes the others if the device is
\* there; what cannot be cancelled for another reason is freed on the spot, and
\* with it leaves libusb's list. Its URBs stay with the kernel, and the event
\* thread may have found it.
CancelNext ==
  /\ ctl = "cancel" /\ next <= Buffers /\ next' = next + 1
  /\ IF next \notin (held \cap flight) \ cancelling
     THEN UNCHANGED <<held, flight, cancelling>>
     ELSE IF device = "attached"
          THEN cancelling' = cancelling \cup {next} /\ UNCHANGED <<held, flight>>
          ELSE held' = held \ {next} /\ flight' = flight \ {next} /\ UNCHANGED cancelling
  /\ UNCHANGED <<device, urbs, timedOut, running, holdSeq, ctl, starts, evVars,
                 userVars, asleep>>

\* Mutant: after one wait it goes on, whatever is still held.
AwaitTransfersOnce ==
  /\ \/ ctl = "cancel" /\ next = Buffers + 1
     \/ ctl = "wait" /\ "ctl" \notin asleep
  /\ next' = 1
  /\ IF held = {} \/ ctl = "wait"
     THEN ctl' = "join" /\ Broadcast
     ELSE ctl' = "wait" /\ asleep' = asleep \cup {"ctl"}
  /\ UNCHANGED <<usbVars, running, held, holdSeq, starts, evVars, userVars>>

\* With the lock, it goes on when no transfer is held, and kicks the user
\* thread; otherwise it waits, and releases the lock.
AwaitTransfers ==
  /\ \/ ctl = "cancel" /\ next = Buffers + 1
     \/ ctl = "wait" /\ "ctl" \notin asleep
  /\ next' = 1
  /\ IF held = {} THEN ctl' = "join" /\ Broadcast
                  ELSE ctl' = "wait" /\ asleep' = asleep \cup {"ctl"}
  /\ UNCHANGED <<usbVars, running, held, holdSeq, starts, evVars, userVars>>

\* Mutant: the user thread is not waited for.
JoinNobody == /\ ctl = "join"
              /\ ctl' = "closed" /\ user' = "none"
              /\ UNCHANGED <<usbVars, running, held, holdSeq, lastSeq, next,
                             starts, evVars, asleep>>

\* The user thread has ended: the stream is closed and its memory given back.
Join == /\ ctl = "join" /\ user = "ended"
        /\ ctl' = "closed" /\ user' = "none"
        /\ UNCHANGED <<usbVars, running, held, holdSeq, lastSeq, next, starts, evVars, asleep>>

\* pthread_cond_wait may return without a signal.
SpuriousReturn == /\ \E th \in asleep : asleep' = asleep \ {th}
                  /\ UNCHANGED <<usbVars, running, held, holdSeq, ctlVars, evVars, userVars>>
-----------------------------------------------------------------------------
UsbStep == \/ \E t \in Transfer : ReapUrb(t) \/ ReapShutdown(t) \/ TimeoutDue(t)
           \/ Unplug \/ Disconnect
ReportStep == ReportReaped \/ ReportPicked \/ CancelDue \/ UseFreed
TransferCallback == ProcessPayload \/ CheckRunning \/ Resubmit \/ FreeTransfer
UserStep == UserLoop \/ CallbackReturns
StopStep == Lock \/ CancelNext \/ AwaitTransfers \/ Join

StreamNext ==
  /\ ev # "undefined"
  /\ \/ UsbStep \/ ReportStep \/ TransferCallback \/ UserStep \/ StopStep
     \/ StartStreaming \/ Submit \/ SubmitFails \/ Started \/ Stop
     \/ SpuriousReturn

StreamSpec == StreamInit /\ [][StreamNext]_streamVars
-----------------------------------------------------------------------------
\* A transfer in flight is held, and one whose URBs are out is in flight, unless
\* the stop has freed it. While the camera is there it frees none.
FlightIsHeld ==
  /\ flight \subseteq held /\ urbs \cap held \subseteq flight
  /\ device = "attached" => urbs \subseteq held
  /\ device = "gone" => urbs = {}

\* The callback's transfer is held and not in flight: no transfer is freed under
\* its callback, freed twice or submitted while it is in flight, although three
\* places free transfers, one of them in another thread. What the event thread
\* has found and not locked is in flight, or was freed after the camera had been
\* unplugged; only then is freed memory used.
CallbackFindsTransfer ==
  /\ ev \in {"idle", "undefined"} => evT = NoTransfer
  /\ ev \in CallbackAt => evT \in held \ flight
  /\ ev \in FoundAt =>
       /\ evT \in flight \/ (evT \in Transfer \ held /\ device # "attached")
       /\ evT \notin urbs \/ ev = "due"
  /\ ev = "undefined" => device # "attached"

\* When uvc_stream_stop waits for the user thread, and when it has returned,
\* nothing is in flight and no callback runs: what follows frees the memory
\* both use. After the return the user thread has ended as well.
StoppedIsQuiet ==
  /\ ctl \in {"closed", "join"} => held = {}
  /\ ctl = "closed" <=> user = "none"

\* Where the controlling thread is
CtlState ==
  /\ running <=> ctl \in {"submit", "open"}
  /\ ctl = "submit" =>
       /\ next .. Buffers \subseteq held
       /\ \A t \in next .. Buffers : t \notin flight /\ t # evT
  /\ user = "ended" => ~running
  /\ lastSeq <= holdSeq

\* No wake-up is lost: who sleeps on cb_cond has something to wait for, or the
\* stop, which wakes all, is still to come.
NobodySleepsOn ==
  /\ "ctl" \in asleep => ctl = "wait" /\ held # {}
  /\ "user" \in asleep =>
       /\ user = "wait"
       /\ IF running THEN lastSeq = holdSeq ELSE ctl \in {"stop", "cancel", "wait"}

StreamInv == /\ StreamType /\ FlightIsHeld /\ CallbackFindsTransfer
             /\ StoppedIsQuiet /\ CtlState /\ NobodySleepsOn

\* What the stop waits for is under way: every transfer that is held is in flight
\* or in its callback, which frees it, or is still to be submitted. One that
\* was forgotten in transfers[] would keep the stop waiting for ever.
HeldIsUnderWay ==
  held = flight \cup (IF ev \in CallbackAt THEN {evT} ELSE {})
           \cup (IF ctl = "submit" THEN next .. Buffers ELSE {})

\* The transfers in flight that the stop has been through and not cancelled
Missed == {t \in flight \ cancelling : ctl = "wait" \/ (ctl = "cancel" /\ t < next)}

\* The callback decides without the lock to submit its transfer again, so that
\* the stop may miss that one and has to wait until it ends by itself. It
\* misses no other: the callback of none is still to be submitted again.
StopMissesOne ==
  /\ \A t, u \in Missed : t = u
  /\ ev = "resubmit" => Missed = {}

\* libusb/io.c:1327: a transfer that has been submitted and has not completed is
\* not freed.
FreedIsCompleted == [][\A t \in held \ held' : t \notin flight]_streamVars

\* The stream is what the preview takes it for: the frame callback runs only
\* between start and the return of stop, and each time with a newer frame.
Source == INSTANCE FrameSource
  WITH MaxSeq <- MaxHold, open <- ctl # "closed",
       calling <- user = "callback", current <- lastSeq
ImplementsSource == Source!SourceSpec
=============================================================================
