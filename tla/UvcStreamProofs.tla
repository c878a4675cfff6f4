-------------------------- MODULE UvcStreamProofs --------------------------
(***************************************************************************)
(* Proofs about UvcStream, for any number of transfers, frames and starts: *)
(* StreamInv is inductive, so it holds, and with it a frame callback runs  *)
(* only while the stream is open, which makes the stream a FrameSource.    *)
(***************************************************************************)
EXTENDS UvcStream, TLAPS

LEMMA StreamStarts == StreamInit => StreamInv
<1> SUFFICES ASSUME StreamInit PROVE StreamInv
  OBVIOUS
<1> USE BuffersArePositive, StreamBounds DEF StreamInit
<1>1. StreamType
  <2>1. device \in {"attached", "unplugged", "gone"} /\ running \in BOOLEAN
    OBVIOUS
  <2>2. /\ held \subseteq Transfer /\ flight \subseteq Transfer /\ urbs \subseteq Transfer
        /\ cancelling \subseteq flight /\ timedOut \subseteq cancelling
    OBVIOUS
  <2>3. /\ holdSeq \in 0 .. MaxHold /\ lastSeq \in 0 .. MaxHold
        /\ next \in 1 .. Buffers + 1 /\ starts \in 0 .. MaxStart
    OBVIOUS
  <2>4. /\ ctl \in CtlAt /\ ev \in EvAt /\ evT \in Transfer \cup {NoTransfer}
        /\ user \in UserAt /\ asleep \subseteq {"ctl", "user"}
    BY DEF CtlAt, EvAt, FoundAt, CallbackAt, UserAt
  <2>5. QED  BY <2>1, <2>2, <2>3, <2>4 DEF StreamType
<1>2. FlightIsHeld  BY DEF FlightIsHeld
<1>3. CallbackFindsTransfer  BY DEF CallbackFindsTransfer, FoundAt, CallbackAt
<1>4. StoppedIsQuiet  BY DEF StoppedIsQuiet
<1>5. CtlState  BY DEF CtlState
<1>6. NobodySleepsOn  BY DEF NobodySleepsOn
<1>7. QED  BY <1>1, <1>2, <1>3, <1>4, <1>5, <1>6 DEF StreamInv

LEMMA UsbStepKeeps ==
  ASSUME StreamInv, UsbStep \/ SpuriousReturn
  PROVE  StreamInv'
<1> USE BuffersArePositive, StreamBounds
    DEF StreamInv, StreamType, FlightIsHeld, CallbackFindsTransfer, StoppedIsQuiet,
        CtlState, NobodySleepsOn, CtlAt, EvAt, FoundAt, CallbackAt, UserAt, Transfer, NoTransfer,
        usbVars, ctlVars, evVars, userVars
<1>1. CASE \E t \in Transfer : ReapUrb(t)
  <2>1. StreamType'  BY <1>1 DEF ReapUrb, Found
  <2>2. FlightIsHeld'  BY <1>1 DEF ReapUrb, Found
  <2>3. CallbackFindsTransfer'  BY <1>1 DEF ReapUrb, Found
  <2>4. StoppedIsQuiet'  BY <1>1 DEF ReapUrb, Found
  <2>5. CtlState'  BY <1>1 DEF ReapUrb, Found
  <2>6. NobodySleepsOn'  BY <1>1 DEF ReapUrb, Found
  <2>7. QED  BY <2>1, <2>2, <2>3, <2>4, <2>5, <2>6
<1>2. CASE \E t \in Transfer : ReapShutdown(t)
  BY <1>2 DEF ReapShutdown
<1>3. CASE \E t \in Transfer : TimeoutDue(t)
  <2>1. StreamType'  BY <1>3 DEF TimeoutDue, Found
  <2>2. FlightIsHeld'  BY <1>3 DEF TimeoutDue, Found
  <2>3. CallbackFindsTransfer'  BY <1>3 DEF TimeoutDue, Found
  <2>4. StoppedIsQuiet'  BY <1>3 DEF TimeoutDue, Found
  <2>5. CtlState'  BY <1>3 DEF TimeoutDue, Found
  <2>6. NobodySleepsOn'  BY <1>3 DEF TimeoutDue, Found
  <2>7. QED  BY <2>1, <2>2, <2>3, <2>4, <2>5, <2>6
<1>4. CASE Unplug
  BY <1>4 DEF Unplug
<1>5. CASE Disconnect
  <2>1. StreamType'  BY <1>5 DEF Disconnect, Found
  <2>2. FlightIsHeld'  BY <1>5 DEF Disconnect, Found
  <2>3. CallbackFindsTransfer'  BY <1>5 DEF Disconnect, Found
  <2>4. StoppedIsQuiet'  BY <1>5 DEF Disconnect, Found
  <2>5. CtlState'  BY <1>5 DEF Disconnect, Found
  <2>6. NobodySleepsOn'  BY <1>5 DEF Disconnect, Found
  <2>7. QED  BY <2>1, <2>2, <2>3, <2>4, <2>5, <2>6
<1>6. CASE SpuriousReturn
  BY <1>6 DEF SpuriousReturn
<1>7. QED  BY <1>1, <1>2, <1>3, <1>4, <1>5, <1>6 DEF UsbStep

LEMMA ReportKeeps ==
  ASSUME StreamInv, ReportStep
  PROVE  StreamInv'
<1> USE BuffersArePositive, StreamBounds
    DEF StreamInv, StreamType, FlightIsHeld, CallbackFindsTransfer, StoppedIsQuiet,
        CtlState, NobodySleepsOn, CtlAt, EvAt, FoundAt, CallbackAt, UserAt, Transfer, NoTransfer,
        usbVars, ctlVars, evVars, userVars
<1>1. CASE ReportReaped
  <2>1. StreamType'  BY <1>1 DEF ReportReaped, Complete
  <2>2. FlightIsHeld'  BY <1>1 DEF ReportReaped, Complete
  <2>3. CallbackFindsTransfer'  BY <1>1 DEF ReportReaped, Complete
  <2>4. StoppedIsQuiet'  BY <1>1 DEF ReportReaped, Complete
  <2>5. CtlState'  BY <1>1 DEF ReportReaped, Complete
  <2>6. NobodySleepsOn'  BY <1>1 DEF ReportReaped, Complete
  <2>7. QED  BY <2>1, <2>2, <2>3, <2>4, <2>5, <2>6
<1>2. CASE ReportPicked
  <2>1. StreamType'  BY <1>2 DEF ReportPicked, Complete
  <2>2. FlightIsHeld'  BY <1>2 DEF ReportPicked, Complete
  <2>3. CallbackFindsTransfer'  BY <1>2 DEF ReportPicked, Complete
  <2>4. StoppedIsQuiet'  BY <1>2 DEF ReportPicked, Complete
  <2>5. CtlState'  BY <1>2 DEF ReportPicked, Complete
  <2>6. NobodySleepsOn'  BY <1>2 DEF ReportPicked, Complete
  <2>7. QED  BY <2>1, <2>2, <2>3, <2>4, <2>5, <2>6
<1>3. CASE CancelDue
  <2>1. StreamType'  BY <1>3 DEF CancelDue
  <2>2. FlightIsHeld'  BY <1>3 DEF CancelDue
  <2>3. CallbackFindsTransfer'  BY <1>3 DEF CancelDue
  <2>4. StoppedIsQuiet'  BY <1>3 DEF CancelDue
  <2>5. CtlState'  BY <1>3 DEF CancelDue
  <2>6. NobodySleepsOn'  BY <1>3 DEF CancelDue
  <2>7. QED  BY <2>1, <2>2, <2>3, <2>4, <2>5, <2>6
<1>4. CASE UseFreed
  BY <1>4 DEF UseFreed
<1>5. QED  BY <1>1, <1>2, <1>3, <1>4 DEF ReportStep

LEMMA TransferCallbackKeeps ==
  ASSUME StreamInv,
         ProcessPayload \/ CheckRunning \/ Resubmit \/ FreeTransfer
  PROVE  StreamInv'
<1> USE BuffersArePositive, StreamBounds
    DEF StreamInv, StreamType, FlightIsHeld, CallbackFindsTransfer, StoppedIsQuiet,
        CtlState, NobodySleepsOn, CtlAt, EvAt, FoundAt, CallbackAt, UserAt, Transfer, NoTransfer,
        usbVars, ctlVars, evVars, userVars
<1>1. CASE ProcessPayload
  <2>1. StreamType'
    <3>1. device' \in {"attached", "unplugged", "gone"} /\ running' \in BOOLEAN
      BY <1>1 DEF ProcessPayload, Broadcast, Unlocked
    <3>2. held' \subseteq Transfer /\ flight' \subseteq Transfer /\ urbs' \subseteq Transfer
      BY <1>1 DEF ProcessPayload, Broadcast, Unlocked
    <3>3. cancelling' \subseteq flight' /\ timedOut' \subseteq cancelling'
      BY <1>1 DEF ProcessPayload, Broadcast, Unlocked
    <3>4. holdSeq' \in 0 .. MaxHold /\ lastSeq' \in 0 .. MaxHold
      BY <1>1 DEF ProcessPayload, Broadcast, Unlocked
    <3>5. ctl' \in CtlAt /\ next' \in 1 .. Buffers + 1
      BY <1>1 DEF ProcessPayload, Broadcast, Unlocked
    <3>6. ev' \in EvAt /\ evT' \in Transfer \cup {NoTransfer}
      BY <1>1 DEF ProcessPayload, Broadcast, Unlocked
    <3>7. user' \in UserAt /\ asleep' \subseteq {"ctl", "user"}
      BY <1>1 DEF ProcessPayload, Broadcast, Unlocked
    <3>8. starts' \in 0 .. MaxStart
      BY <1>1 DEF ProcessPayload, Broadcast, Unlocked
    <3>9. QED  BY <3>1, <3>2, <3>3, <3>4, <3>5, <3>6, <3>7, <3>8
  <2>2. FlightIsHeld'  BY <1>1 DEF ProcessPayload, Broadcast, Unlocked
  <2>3. CallbackFindsTransfer'  BY <1>1 DEF ProcessPayload, Broadcast, Unlocked
  <2>4. StoppedIsQuiet'  BY <1>1 DEF ProcessPayload, Broadcast, Unlocked
  <2>5. CtlState'  BY <1>1 DEF ProcessPayload, Broadcast, Unlocked
  <2>6. NobodySleepsOn'  BY <1>1 DEF ProcessPayload, Broadcast, Unlocked
  <2>7. QED  BY <2>1, <2>2, <2>3, <2>4, <2>5, <2>6
<1>2. CASE CheckRunning
  BY <1>2 DEF CheckRunning
<1>3. CASE Resubmit
  <2>1. StreamType'  BY <1>3 DEF Resubmit, SubmitOk
  <2>2. FlightIsHeld'  BY <1>3 DEF Resubmit, SubmitOk
  <2>3. CallbackFindsTransfer'  BY <1>3 DEF Resubmit, SubmitOk
  <2>4. StoppedIsQuiet'  BY <1>3 DEF Resubmit, SubmitOk
  <2>5. CtlState'  BY <1>3 DEF Resubmit, SubmitOk
  <2>6. NobodySleepsOn'  BY <1>3 DEF Resubmit, SubmitOk
  <2>7. QED  BY <2>1, <2>2, <2>3, <2>4, <2>5, <2>6
<1>4. CASE FreeTransfer
  <2>1. StreamType'  BY <1>4 DEF FreeTransfer, Broadcast, Unlocked
  <2>2. FlightIsHeld'  BY <1>4 DEF FreeTransfer, Broadcast, Unlocked
  <2>3. CallbackFindsTransfer'  BY <1>4 DEF FreeTransfer, Broadcast, Unlocked
  <2>4. StoppedIsQuiet'  BY <1>4 DEF FreeTransfer, Broadcast, Unlocked
  <2>5. CtlState'  BY <1>4 DEF FreeTransfer, Broadcast, Unlocked
  <2>6. NobodySleepsOn'  BY <1>4 DEF FreeTransfer, Broadcast, Unlocked
  <2>7. QED  BY <2>1, <2>2, <2>3, <2>4, <2>5, <2>6
<1>5. QED  BY <1>1, <1>2, <1>3, <1>4

LEMMA UserStepKeeps ==
  ASSUME StreamInv,
         UserLoop \/ CallbackReturns
  PROVE  StreamInv'
<1> USE BuffersArePositive, StreamBounds
    DEF StreamInv, StreamType, FlightIsHeld, CallbackFindsTransfer, StoppedIsQuiet,
        CtlState, NobodySleepsOn, CtlAt, EvAt, FoundAt, CallbackAt, UserAt, Transfer, NoTransfer,
        usbVars, ctlVars, evVars, userVars
<1>1. CASE UserLoop
  <2>1. StreamType'  BY <1>1 DEF UserLoop, Unlocked
  <2>2. FlightIsHeld'  BY <1>1 DEF UserLoop, Unlocked
  <2>3. CallbackFindsTransfer'  BY <1>1 DEF UserLoop, Unlocked
  <2>4. StoppedIsQuiet'  BY <1>1 DEF UserLoop, Unlocked
  <2>5. CtlState'  BY <1>1 DEF UserLoop, Unlocked
  <2>6. NobodySleepsOn'  BY <1>1 DEF UserLoop, Unlocked
  <2>7. QED  BY <2>1, <2>2, <2>3, <2>4, <2>5, <2>6
<1>2. CASE CallbackReturns
  BY <1>2 DEF CallbackReturns
<1>3. QED  BY <1>1, <1>2

LEMMA StartKeeps ==
  ASSUME StreamInv,
         StartStreaming \/ Submit \/ SubmitFails \/ Started
  PROVE  StreamInv'
<1> USE BuffersArePositive, StreamBounds
    DEF StreamInv, StreamType, FlightIsHeld, CallbackFindsTransfer, StoppedIsQuiet,
        CtlState, NobodySleepsOn, CtlAt, EvAt, FoundAt, CallbackAt, UserAt, Transfer, NoTransfer,
        usbVars, ctlVars, evVars, userVars
<1>1. CASE StartStreaming
  <2>1. StreamType'  BY <1>1 DEF StartStreaming
  <2>2. FlightIsHeld'  BY <1>1 DEF StartStreaming
  <2>3. CallbackFindsTransfer'  BY <1>1 DEF StartStreaming
  <2>4. StoppedIsQuiet'  BY <1>1 DEF StartStreaming
  <2>5. CtlState'  BY <1>1 DEF StartStreaming
  <2>6. NobodySleepsOn'  BY <1>1 DEF StartStreaming
  <2>7. QED  BY <2>1, <2>2, <2>3, <2>4, <2>5, <2>6
<1>2. CASE Submit
  BY <1>2 DEF Submit, SubmitOk
<1>3. CASE SubmitFails
  BY <1>3 DEF SubmitFails
<1>4. CASE Started
  BY <1>4 DEF Started
<1>5. QED  BY <1>1, <1>2, <1>3, <1>4

LEMMA StopStepKeeps ==
  ASSUME StreamInv,
         Stop \/ Lock \/ CancelNext \/ AwaitTransfers \/ Join
  PROVE  StreamInv'
<1> USE BuffersArePositive, StreamBounds
    DEF StreamInv, StreamType, FlightIsHeld, CallbackFindsTransfer, StoppedIsQuiet,
        CtlState, NobodySleepsOn, CtlAt, EvAt, FoundAt, CallbackAt, UserAt, Transfer, NoTransfer,
        usbVars, ctlVars, evVars, userVars
<1>1. CASE Stop
  <2>1. StreamType'  BY <1>1 DEF Stop
  <2>2. FlightIsHeld'  BY <1>1 DEF Stop
  <2>3. CallbackFindsTransfer'  BY <1>1 DEF Stop
  <2>4. StoppedIsQuiet'  BY <1>1 DEF Stop
  <2>5. CtlState'  BY <1>1 DEF Stop
  <2>6. NobodySleepsOn'  BY <1>1 DEF Stop
  <2>7. QED  BY <2>1, <2>2, <2>3, <2>4, <2>5, <2>6
<1>2. CASE Lock
  BY <1>2 DEF Lock
<1>3. CASE CancelNext
  <2>1. StreamType'
    <3>1. device' \in {"attached", "unplugged", "gone"} /\ running' \in BOOLEAN
      BY <1>3 DEF CancelNext
    <3>2. held' \subseteq Transfer /\ flight' \subseteq Transfer /\ urbs' \subseteq Transfer
      BY <1>3 DEF CancelNext
    <3>3. cancelling' \subseteq flight' /\ timedOut' \subseteq cancelling'
      <4>1. CASE next \notin (held \cap flight) \ cancelling
        BY <1>3, <4>1 DEF CancelNext
      <4>2. CASE next \in (held \cap flight) \ cancelling
        <5>1. /\ cancelling \subseteq flight
              /\ timedOut \subseteq cancelling /\ timedOut' = timedOut
          BY <1>3 DEF CancelNext
        <5>2. CASE device = "attached"
          <6>1. cancelling' = cancelling \cup {next} /\ flight' = flight
            BY <1>3, <4>2, <5>2 DEF CancelNext
          <6>2. QED  BY <4>2, <5>1, <6>1
        <5>3. CASE device # "attached"
          <6>1. cancelling' = cancelling /\ flight' = flight \ {next}
            BY <1>3, <4>2, <5>3 DEF CancelNext
          <6>2. QED  BY <4>2, <5>1, <6>1
        <5>4. QED  BY <5>2, <5>3
      <4>3. QED  BY <4>1, <4>2
    <3>4. holdSeq' \in 0 .. MaxHold /\ lastSeq' \in 0 .. MaxHold
      BY <1>3 DEF CancelNext
    <3>5. ctl' \in CtlAt /\ next' \in 1 .. Buffers + 1
      BY <1>3 DEF CancelNext
    <3>6. ev' \in EvAt /\ evT' \in Transfer \cup {NoTransfer}
      BY <1>3 DEF CancelNext
    <3>7. user' \in UserAt /\ asleep' \subseteq {"ctl", "user"}
      BY <1>3 DEF CancelNext
    <3>8. starts' \in 0 .. MaxStart
      BY <1>3 DEF CancelNext
    <3>9. QED  BY <3>1, <3>2, <3>3, <3>4, <3>5, <3>6, <3>7, <3>8
  <2>2. FlightIsHeld'  BY <1>3 DEF CancelNext
  <2>3. CallbackFindsTransfer'  BY <1>3 DEF CancelNext
  <2>4. StoppedIsQuiet'  BY <1>3 DEF CancelNext
  <2>5. CtlState'  BY <1>3 DEF CancelNext
  <2>6. NobodySleepsOn'  BY <1>3 DEF CancelNext
  <2>7. QED  BY <2>1, <2>2, <2>3, <2>4, <2>5, <2>6
<1>4. CASE AwaitTransfers
  <2>1. StreamType'
    <3>1. device' \in {"attached", "unplugged", "gone"} /\ running' \in BOOLEAN
      BY <1>4 DEF AwaitTransfers, Broadcast
    <3>2. held' \subseteq Transfer /\ flight' \subseteq Transfer /\ urbs' \subseteq Transfer
      BY <1>4 DEF AwaitTransfers, Broadcast
    <3>3. cancelling' \subseteq flight' /\ timedOut' \subseteq cancelling'
      BY <1>4 DEF AwaitTransfers, Broadcast
    <3>4. holdSeq' \in 0 .. MaxHold /\ lastSeq' \in 0 .. MaxHold
      BY <1>4 DEF AwaitTransfers, Broadcast
    <3>5. ctl' \in CtlAt /\ next' \in 1 .. Buffers + 1
      BY <1>4 DEF AwaitTransfers, Broadcast
    <3>6. ev' \in EvAt /\ evT' \in Transfer \cup {NoTransfer}
      BY <1>4 DEF AwaitTransfers, Broadcast
    <3>7. user' \in UserAt /\ asleep' \subseteq {"ctl", "user"}
      BY <1>4 DEF AwaitTransfers, Broadcast
    <3>8. starts' \in 0 .. MaxStart
      BY <1>4 DEF AwaitTransfers, Broadcast
    <3>9. QED  BY <3>1, <3>2, <3>3, <3>4, <3>5, <3>6, <3>7, <3>8
  <2>2. FlightIsHeld'  BY <1>4 DEF AwaitTransfers, Broadcast
  <2>3. CallbackFindsTransfer'  BY <1>4 DEF AwaitTransfers, Broadcast
  <2>4. StoppedIsQuiet'  BY <1>4 DEF AwaitTransfers, Broadcast
  <2>5. CtlState'  BY <1>4 DEF AwaitTransfers, Broadcast
  <2>6. NobodySleepsOn'  BY <1>4 DEF AwaitTransfers, Broadcast
  <2>7. QED  BY <2>1, <2>2, <2>3, <2>4, <2>5, <2>6
<1>5. CASE Join
  BY <1>5 DEF Join
<1>6. QED  BY <1>1, <1>2, <1>3, <1>4, <1>5

LEMMA StreamStep == StreamInv /\ [StreamNext]_streamVars => StreamInv'
<1> SUFFICES ASSUME StreamInv, [StreamNext]_streamVars PROVE StreamInv'
  OBVIOUS
<1>1. CASE UsbStep \/ SpuriousReturn
  BY <1>1, UsbStepKeeps
<1>2. CASE ReportStep
  BY <1>2, ReportKeeps
<1>3. CASE TransferCallback
  BY <1>3, TransferCallbackKeeps DEF TransferCallback
<1>4. CASE UserStep
  BY <1>4, UserStepKeeps DEF UserStep
<1>5. CASE StartStreaming \/ Submit \/ SubmitFails \/ Started
  BY <1>5, StartKeeps
<1>6. CASE StopStep \/ Stop
  BY <1>6, StopStepKeeps DEF StopStep
<1>7. CASE UNCHANGED streamVars
  BY <1>7 DEF StreamInv, StreamType, FlightIsHeld, CallbackFindsTransfer,
              StoppedIsQuiet, CtlState, NobodySleepsOn, streamVars, usbVars, ctlVars,
              evVars, userVars
<1>8. QED  BY <1>1, <1>2, <1>3, <1>4, <1>5, <1>6, <1>7 DEF StreamNext

\* Whatever the order in which transfers end, time out or are cancelled and the
\* threads take the lock: no transfer is freed twice or under its callback; one
\* that libusb still has is freed, and used after that, only when the camera has
\* been unplugged; the stop returns when all are given back, and no thread sleeps
\* through its wake-up.
THEOREM StreamInvariance == StreamSpec => []StreamInv
<1>1. QED  BY StreamStarts, StreamStep, PTL DEF StreamSpec
-----------------------------------------------------------------------------
(* What the stop waits for. *)

LEMMA UnderWayStep ==
  ASSUME StreamInv, HeldIsUnderWay, [StreamNext]_streamVars
  PROVE  HeldIsUnderWay'
<1> USE BuffersArePositive
    DEF HeldIsUnderWay, StreamInv, FlightIsHeld, CallbackFindsTransfer, NoTransfer,
        Transfer, usbVars, ctlVars, evVars, userVars, FoundAt, CallbackAt
<1>1. CASE UsbStep \/ SpuriousReturn
  BY <1>1 DEF UsbStep, ReapUrb, ReapShutdown, TimeoutDue, Unplug, Disconnect, Found,
     SpuriousReturn
<1>2. ASSUME NEW t \in Transfer, NEW pc \in CallbackAt, t \in flight, ev \notin CallbackAt,
             Complete(t, pc)
      PROVE  HeldIsUnderWay'
  BY <1>2 DEF Complete
<1>3. CASE ReportStep
  <2>1. CASE ReportReaped \/ ReportPicked
    <3>1. evT \in flight /\ evT \in Transfer /\ ev \notin CallbackAt
      BY <2>1 DEF ReportReaped, ReportPicked, StreamType
    <3>2. \E pc \in CallbackAt : Complete(evT, pc)
      BY <2>1 DEF ReportReaped, ReportPicked
    <3>3. QED  BY <1>2, <3>1, <3>2
  <2>2. CASE CancelDue \/ UseFreed
    BY <2>2 DEF CancelDue, UseFreed
  <2>3. QED  BY <1>3, <2>1, <2>2 DEF ReportStep
<1>4. CASE UserStep \/ ProcessPayload \/ CheckRunning \/ UNCHANGED streamVars
  BY <1>4 DEF UserStep, UserLoop, CallbackReturns, ProcessPayload, CheckRunning, streamVars
<1>5. CASE Resubmit
  <2>1. evT \in Transfer /\ evT # NoTransfer
    BY <1>5 DEF Resubmit, StreamType
  <2>2. QED  BY <1>5, <2>1 DEF Resubmit, SubmitOk
<1>6. CASE FreeTransfer
  <2>1. evT \notin flight /\ evT # NoTransfer
    BY <1>6 DEF FreeTransfer, StreamType
  <2>2. ctl = "submit" => evT \notin next .. Buffers
    BY DEF CtlState
  <2>3. QED  BY <1>6, <2>1, <2>2 DEF FreeTransfer
<1>7. CASE StartStreaming
  <2>1. held = {} /\ flight = {} /\ ev \notin CallbackAt
    BY <1>7 DEF StartStreaming, StoppedIsQuiet
  <2>2. held' = 1 .. Buffers /\ ctl' = "submit" /\ next' = 1 /\ flight' = {} /\ ev' = ev
    BY <1>7, <2>1 DEF StartStreaming
  <2>3. QED  BY <2>1, <2>2
<1>8. CASE Submit
  <2>1. next .. Buffers = {next} \cup ((next + 1) .. Buffers)
    BY <1>8 DEF Submit, StreamType
  <2>2. /\ held' = held /\ flight' = flight \cup {next} /\ evT' = evT /\ ev' = ev
        /\ ctl = "submit" /\ ctl' = "submit" /\ next' = next + 1
    BY <1>8 DEF Submit, SubmitOk
  <2>3. QED  BY <2>1, <2>2
<1>9. CASE SubmitFails
  <2>1. \A t \in next .. Buffers : t \notin flight /\ t # evT
    BY <1>9 DEF SubmitFails, CtlState
  <2>2. QED  BY <1>9, <2>1 DEF SubmitFails
<1>10. CASE Started
  <2>1. next .. Buffers = {}
    BY <1>10 DEF Started, StreamType
  <2>2. QED  BY <1>10, <2>1 DEF Started
<1>11. CASE CancelNext
  <2>1. next \in flight /\ ev \in CallbackAt => next # evT
    BY DEF StreamType
  <2>2. /\ ctl' = "cancel" /\ ctl = "cancel" /\ evT' = evT /\ ev' = ev
        /\ \/ held' = held /\ flight' = flight
           \/ held' = held \ {next} /\ flight' = flight \ {next} /\ next \in flight
    BY <1>11 DEF CancelNext
  <2>3. QED  BY <2>1, <2>2
<1>12. CASE Stop \/ Lock \/ AwaitTransfers \/ Join
  BY <1>12 DEF Stop, Lock, AwaitTransfers, Join
<1>13. QED
  BY <1>1, <1>3, <1>4, <1>5, <1>6, <1>7, <1>8, <1>9, <1>10, <1>11, <1>12
     DEF StreamNext, TransferCallback, StopStep

\* No transfer is forgotten: the stop waits for those in flight, and for the one
\* whose callback runs, whatever failed at the start or went away since.
THEOREM NothingIsForgotten == StreamSpec => []HeldIsUnderWay
<1>1. StreamInit => HeldIsUnderWay
  BY DEF StreamInit, HeldIsUnderWay, CallbackAt
<1>2. StreamInv /\ HeldIsUnderWay /\ [StreamNext]_streamVars => HeldIsUnderWay'
  BY UnderWayStep
<1>3. QED  BY <1>1, <1>2, StreamInvariance, PTL DEF StreamSpec

LEMMA MissesStep ==
  ASSUME StreamInv, StopMissesOne, [StreamNext]_streamVars
  PROVE  StopMissesOne'
\* Nothing is newly missed, and no callback newly goes to submit its transfer.
<1>1. ASSUME Missed' \subseteq Missed, ev' = "resubmit" => ev = "resubmit" \/ Missed' = {}
      PROVE  StopMissesOne'
  BY <1>1 DEF StopMissesOne
<1> USE DEF usbVars, ctlVars, evVars
<1>2. CASE UsbStep \/ SpuriousReturn
  BY <1>1, <1>2 DEF UsbStep, ReapUrb, ReapShutdown, TimeoutDue, Unplug, Disconnect, Found,
     SpuriousReturn, Missed
<1>3. CASE ReportStep
  BY <1>1, <1>3 DEF ReportStep, ReportReaped, ReportPicked, CancelDue, UseFreed, Complete,
     Missed
<1>4. CASE UserStep \/ ProcessPayload \/ UNCHANGED streamVars
  BY <1>1, <1>4 DEF UserStep, UserLoop, CallbackReturns, ProcessPayload, streamVars, Missed
<1>5. CASE CheckRunning
  <2>1. running => Missed' = {}
    BY <1>5 DEF CheckRunning, StreamInv, CtlState, Missed
  <2>2. Missed' \subseteq Missed /\ (ev' = "resubmit" => Missed' = {})
    BY <1>5, <2>1 DEF CheckRunning, Missed
  <2>3. QED  BY <1>1, <2>2
<1>6. CASE Resubmit
  <2>1. CASE UNCHANGED <<usbVars, evT>> /\ ev' = "failed"
    BY <1>1, <1>6, <2>1 DEF Resubmit, Missed
  <2>2. CASE SubmitOk(evT) /\ ev' = "idle"
    <3>1. Missed = {}
      BY <1>6 DEF Resubmit, StopMissesOne
    <3>2. Missed' \subseteq {evT}
      BY <1>6, <2>2, <3>1 DEF Resubmit, SubmitOk, Missed
    <3>3. QED  BY <2>2, <3>2 DEF StopMissesOne
  <2>3. QED  BY <1>6, <2>1, <2>2 DEF Resubmit
<1>7. CASE FreeTransfer
  BY <1>1, <1>7 DEF FreeTransfer, Missed
<1>8. CASE StartStreaming \/ Submit \/ SubmitFails \/ Started
  BY <1>1, <1>8 DEF StartStreaming, Submit, SubmitOk, SubmitFails, Started, Missed
<1>9. CASE Stop \/ Join
  BY <1>1, <1>9 DEF Stop, Join, Missed
<1>10. CASE Lock
  <2>1. flight' \subseteq Transfer /\ next' = 1 /\ ctl' = "cancel"
    BY <1>10 DEF Lock, StreamInv, StreamType
  <2>2. \A t \in Transfer : ~(t < 1)
    BY BuffersArePositive DEF Transfer
  <2>3. Missed' = {}
    BY <2>1, <2>2 DEF Missed
  <2>4. QED  BY <2>3 DEF StopMissesOne
<1>11. CASE CancelNext
  <2>1. \A t \in flight' \ cancelling' : t # next /\ t \in flight \ cancelling
    BY <1>11 DEF CancelNext, StreamInv, FlightIsHeld
  <2>2. \A t \in flight' : t < next + 1 => t < next \/ t = next
    <3>1. flight' \subseteq Transfer /\ next \in Nat
      BY <1>11 DEF CancelNext, StreamInv, StreamType
    <3>2. QED  BY <3>1, BuffersArePositive DEF Transfer
  <2>3. Missed' \subseteq Missed
    BY <1>11, <2>1, <2>2 DEF CancelNext, Missed
  <2>4. QED  BY <1>1, <1>11, <2>3 DEF CancelNext
<1>12. CASE AwaitTransfers
  <2>1. \A t \in flight : ctl = "cancel" => t < next
    BY <1>12, BuffersArePositive DEF AwaitTransfers, StreamInv, StreamType, Transfer
  <2>2. Missed' \subseteq Missed
    BY <1>12, <2>1 DEF AwaitTransfers, Missed
  <2>3. QED  BY <1>1, <1>12, <2>2 DEF AwaitTransfers
<1>13. QED
  BY <1>2, <1>3, <1>4, <1>5, <1>6, <1>7, <1>8, <1>9, <1>10, <1>11, <1>12
     DEF StreamNext, TransferCallback, StopStep

\* When the stop waits, at most one transfer in flight has not been cancelled:
\* the one whose callback had seen the stream running.
THEOREM OnlyOneIsMissed == StreamSpec => []StopMissesOne
<1>1. StreamInit => StopMissesOne
  BY DEF StreamInit, StopMissesOne, Missed
<1>2. StreamInv /\ StopMissesOne /\ [StreamNext]_streamVars => StopMissesOne'
  BY MissesStep
<1>3. QED  BY <1>1, <1>2, StreamInvariance, PTL DEF StreamSpec
-----------------------------------------------------------------------------
LEMMA SourceStarts == StreamInit => Source!SourceInit
BY DEF StreamInit, Source!SourceInit

LEMMA SourceStep ==
  ASSUME StreamInv, [StreamNext]_streamVars
  PROVE  [Source!SourceNext]_(Source!sourceVars)
<1>1. CASE StartStreaming
  BY <1>1 DEF StartStreaming, StreamInv, StoppedIsQuiet,
     Source!SourceNext, Source!Open
<1>2. CASE Join
  BY <1>2 DEF Join, Source!SourceNext, Source!Close
<1>3. CASE UserLoop
  <2>1. CASE user' = "callback"
    <3>1. ctl # "closed" /\ ctl' = ctl /\ user # "callback"
      BY <1>3 DEF UserLoop, StreamInv, StoppedIsQuiet, ctlVars
    <3>2. lastSeq' = holdSeq /\ lastSeq # holdSeq
      BY <1>3, <2>1 DEF UserLoop
    <3>3. holdSeq \in lastSeq + 1 .. MaxHold
      BY <3>2, StreamBounds DEF StreamInv, StreamType, CtlState
    <3>4. QED  BY <2>1, <3>1, <3>2, <3>3 DEF Source!SourceNext, Source!CallBegins
  <2>2. CASE user' # "callback"
    BY <1>3, <2>2 DEF UserLoop, ctlVars, Source!sourceVars
  <2>3. QED  BY <2>1, <2>2
<1>4. CASE CallbackReturns
  BY <1>4 DEF CallbackReturns, ctlVars, Source!SourceNext, Source!CallEnds
<1>5. CASE TransferCallback
  BY <1>5 DEF TransferCallback, ProcessPayload, CheckRunning, Resubmit, FreeTransfer,
              ctlVars, userVars, Source!sourceVars
<1>6. CASE UsbStep \/ ReportStep \/ SpuriousReturn
  BY <1>6 DEF UsbStep, ReapUrb, ReapShutdown, TimeoutDue, Unplug, Disconnect, Found,
              ReportStep, ReportReaped, ReportPicked, CancelDue, UseFreed, Complete,
              SpuriousReturn, ctlVars, userVars, Source!sourceVars
<1>7. CASE Submit \/ SubmitFails \/ Started \/ Stop \/ Lock \/ CancelNext
             \/ AwaitTransfers
  BY <1>7 DEF Submit, SubmitFails, Started, Stop, Lock, CancelNext, AwaitTransfers,
              userVars, Source!sourceVars
<1>8. CASE UNCHANGED streamVars
  BY <1>8 DEF streamVars, ctlVars, userVars, Source!sourceVars
<1>9. QED
  BY <1>1, <1>2, <1>3, <1>4, <1>5, <1>6, <1>7, <1>8 DEF StreamNext, UserStep, StopStep

\* The stream is a source of frames as the preview takes it for: the callback
\* runs only between the start and the return of the stop, never twice at once,
\* and each time with a newer frame.
THEOREM SourceImplemented == StreamSpec => ImplementsSource
<1>1. QED
  BY StreamInvariance, SourceStarts, SourceStep, PTL
     DEF StreamSpec, ImplementsSource, Source!SourceSpec
=============================================================================
