-------------------------- MODULE UvcPreviewProofs --------------------------
(***************************************************************************)
(* Proofs about UvcPreview, for any sizes of the queue and the pool, any   *)
(* number of sessions and callbacks, with or without spurious wakeups: the *)
(* types, that no buffer is in two places, where buffers get lost, that no *)
(* wake-up is, and that frames go through the preview in their order.      *)
(***************************************************************************)
EXTENDS UvcPreview, FiniteSetTheorems, TLAPS

\* A thread has a frame between taking it and passing it on, and at no other
\* place; a thread begins at a place no other one is at.
ThreadFrames ==
  /\ ~calling => copy = NoFrame
  /\ prev.frame # NoFrame <=> prev.at \in {"draw", "add"}
  /\ \A s \in Session : cap[s].frame # NoFrame <=> cap[s].at \in {"got", "java"}
  /\ \A s \in Session : s > session => cap[s].at = "none"
  /\ prev.at \in {"start", "begin"} => session \in Session /\ cap[session].at = "none"
  /\ caller \in {"idle", "clear", "setCallback"} /\ ~run => prev.at = "none"

BufferInv == PreviewType /\ ThreadFrames /\ NoFrameTwice

CapState == [at : CapAt, frame : FrameOrNone, cb : Callback \cup {NoCallback}]

\* What is left when the buffers somebody owns are taken from those there are
Free == frames - pool
Lost == Free - Queued - InHand

-----------------------------------------------------------------------------
(* Counting buffers *)

LEMMA HoldingIsFinite == IsFiniteSet(Holding) /\ Cardinality(Holding) \in Nat
<1>1. IsFiniteSet(Session)
  BY FS_Interval, PreviewSizes DEF Session
<1>2. Holding \in SUBSET Session
  BY DEF Holding
<1>3. IsFiniteSet(Holding)
  BY <1>1, <1>2, FS_Subset
<1>4. QED  BY <1>3, FS_CardinalityType

\* Only the frame of the capture thread that goes on changes.
LEMMA HoldingMoves ==
  ASSUME cap \in [Session -> CapState], NEW s \in Session, NEW c \in CapState,
         cap' = [cap EXCEPT ![s] = c]
  PROVE  /\ cap' \in [Session -> CapState]
         /\ Cardinality(Holding') \in Nat
         /\ Cardinality(Holding') + One(cap[s].frame)
              = Cardinality(Holding) + One(c.frame)
<1>0. cap' \in [Session -> CapState]
  OBVIOUS
<1> DEFINE Others == Holding \ {s}
<1>1. /\ IsFiniteSet(Others) /\ s \notin Others
      /\ Cardinality(Holding) \in Nat /\ Cardinality(Others) \in Nat
  BY HoldingIsFinite, FS_RemoveElement, FS_CardinalityType
<1>2. Holding = IF cap[s].frame = NoFrame THEN Others ELSE Others \cup {s}
  BY DEF Holding
<1>3. Holding' = IF c.frame = NoFrame THEN Others ELSE Others \cup {s}
  BY DEF Holding
<1>4. Cardinality(Others \cup {s}) = Cardinality(Others) + 1
  BY <1>1, FS_AddElement
<1>5. QED  BY <1>0, <1>1, <1>2, <1>3, <1>4 DEF One

LEMMA CapGoes ==
  ASSUME PreviewType, NEW s \in Session, NEW at \in CapAt, NEW f \in FrameOrNone,
         CapGoto(s, at, f)
  PROVE  /\ cap' \in [Session -> CapState]
         /\ cap'[s].at = at /\ cap'[s].frame = f
         /\ \A r \in Session \ {s} : cap'[r] = cap[r]
         /\ Cardinality(Holding') \in Nat
         /\ Cardinality(Holding') + One(cap[s].frame) = Cardinality(Holding) + One(f)
<1> DEFINE c == [at |-> at, frame |-> f, cb |-> NoCallback]
<1>1. c \in CapState /\ c.at = at /\ c.frame = f
  BY DEF CapState
<1>2. cap \in [Session -> CapState] /\ cap' = [cap EXCEPT ![s] = c]
  BY DEF PreviewType, CapState, CapGoto
<1> HIDE DEF c
<1>3. QED  BY <1>1, <1>2, HoldingMoves

LEMMA Recycling ==
  ASSUME pool \in 0 .. PoolSize, frames \in Int, NEW n \in Nat, Recycle(n)
  PROVE  /\ pool' \in 0 .. PoolSize /\ frames' \in Int
         /\ Free' = Free - n
BY PreviewSizes DEF Recycle, Free

LEMMA Getting ==
  ASSUME pool \in 0 .. PoolSize, frames \in Int, GetFrame
  PROVE  /\ pool' \in 0 .. PoolSize /\ frames' \in Int
         /\ Free' = Free + 1
BY PreviewSizes DEF GetFrame, Free

LEMMA Converting ==
  ASSUME pool \in 0 .. PoolSize, frames \in Int, Convert \/ UNCHANGED poolVars
  PROVE  /\ pool' \in 0 .. PoolSize /\ frames' \in Int
         /\ Free' = Free
BY PreviewSizes DEF Convert, poolVars, Free

LEMMA HoldingStays == ASSUME UNCHANGED cap PROVE Holding' = Holding
BY DEF Holding

LEMMA SourceKept ==
  ASSUME SourceType, SourceNext \/ UNCHANGED sourceVars
  PROVE  SourceType'
<1>1. open' \in BOOLEAN /\ calling' \in BOOLEAN
  BY Zenon DEF SourceType, SourceNext, sourceVars, Open, CallBegins, CallEnds, Close
<1>2. UNCHANGED current \/ current' = 0 \/ current' \in current + 1 .. MaxSeq
  BY DEF SourceNext, sourceVars, Open, CallBegins, CallEnds, Close
<1>3. current' \in 0 .. MaxSeq
  BY <1>2, MaxSeqIsNat DEF SourceType
<1>4. QED  BY <1>1, <1>3 DEF SourceType
-----------------------------------------------------------------------------
(* The types *)

BuffersType == /\ previewQ \in Seq(Frame) /\ Len(previewQ) <= QueueSize
               /\ captureQ \in FrameOrNone /\ copy \in FrameOrNone
               /\ pool \in 0 .. PoolSize /\ frames \in Int
CallerType == /\ run \in BOOLEAN /\ capturing \in BOOLEAN
              /\ cb \in Callback \cup {NoCallback}
              /\ caller \in CallerAt /\ newCb \in Callback \cup {NoCallback}
              /\ joined \subseteq Session /\ session \in 0 .. MaxSession
ThreadType == /\ prev \in [at : PrevAt, frame : FrameOrNone]
              /\ cap \in [Session -> CapState]
              /\ capThread \in 0 .. MaxSession
              /\ prevSleeps \in BOOLEAN /\ sleepers \subseteq Session \cup {Caller}

LEMMA TypeIsParts ==
  PreviewType <=> SourceType /\ BuffersType /\ CallerType /\ ThreadType
BY DEF PreviewType, BuffersType, CallerType, ThreadType, CapState

LEMMA PrevGoes ==
  ASSUME NEW at \in PrevAt, NEW f \in FrameOrNone, PrevGoto(at, f)
  PROVE  /\ prev' \in [at : PrevAt, frame : FrameOrNone]
         /\ prev'.at = at /\ prev'.frame = f
BY DEF PrevGoto

LEMMA NoFrameIsNone ==
  NoFrame \in FrameOrNone /\ Frame \subseteq FrameOrNone /\ NoFrame \notin Frame
BY MaxSeqIsNat DEF NoFrame, FrameOrNone, Frame

LEMMA CallerTypes ==
  ASSUME PreviewType, StartPreview \/ StopPreview \/ CallerStep
         \/ \E c \in Callback \cup {NoCallback} : SetFrameCallback(c)
  PROVE  PreviewType'
<1>0. SourceType /\ BuffersType /\ CallerType /\ ThreadType
  BY TypeIsParts
<1>1. SourceType'
  BY <1>0, SourceKept
     DEF StartPreview, StopPreview, CallerStep, StopSignals, JoinCapture,
         JoinPreview, StopClears, ReplaceCallback, SetFrameCallback
<1>2. BuffersType'
  <2>1. CASE StopClears
    <3>1. /\ Recycle(Len(previewQ) + (IF captureQ = NoFrame THEN 0 ELSE 1))
          /\ Len(previewQ) \in Nat
      BY <1>0, <2>1 DEF StopClears, BuffersType
    <3>2. pool' \in 0 .. PoolSize /\ frames' \in Int
      BY <1>0, <3>1, Recycling DEF BuffersType
    <3>3. QED  BY <1>0, <2>1, <3>2, NoFrameIsNone, PreviewSizes
       DEF StopClears, BuffersType
  <2>2. CASE ~StopClears
    <3>1. UNCHANGED <<previewQ, captureQ, copy, pool, frames>>
      BY <2>2
         DEF StartPreview, StopPreview, CallerStep, StopSignals, JoinCapture, poolVars,
                  JoinPreview, ReplaceCallback, SetFrameCallback
    <3>2. QED  BY <1>0, <3>1 DEF BuffersType
  <2>3. QED  BY <2>1, <2>2
<1>3. CallerType'
  <2>1. run' \in BOOLEAN /\ capturing' \in BOOLEAN
    BY <1>0, Zenon
       DEF StartPreview, StopPreview, CallerStep, StopSignals, JoinCapture, JoinPreview,
             StopClears, ReplaceCallback, SetFrameCallback, CallerType, flagVars
  <2>2. session' \in 0 .. MaxSession
    BY <1>0, PreviewSizes
       DEF StartPreview, StopPreview, CallerStep, StopSignals, JoinCapture, JoinPreview,
             StopClears, ReplaceCallback, SetFrameCallback, CallerType
  <2>3. joined' \subseteq Session
    <3>1. UNCHANGED joined \/ joined' = joined \cup ({capThread} \ {0})
      BY
         DEF StartPreview, StopPreview, CallerStep, StopSignals, JoinCapture, JoinPreview,
             StopClears, ReplaceCallback, SetFrameCallback
    <3>2. capThread # 0 => capThread \in Session
      BY <1>0, PreviewSizes DEF ThreadType, Session
    <3>3. QED  BY <1>0, <3>1, <3>2 DEF CallerType
  <2>4. /\ caller' \in CallerAt
        /\ cb' \in Callback \cup {NoCallback} /\ newCb' \in Callback \cup {NoCallback}
    BY <1>0
       DEF StartPreview, StopPreview, CallerStep, StopSignals, JoinCapture, JoinPreview,
             StopClears, ReplaceCallback, SetFrameCallback, CallerType, CallerAt,
             flagVars
  <2>5. QED  BY <2>1, <2>2, <2>3, <2>4 DEF CallerType
<1>4. ThreadType'
  <2>1. UNCHANGED <<cap, capThread>>
    BY DEF StartPreview, StopPreview, CallerStep, StopSignals, JoinCapture, JoinPreview,
             StopClears, ReplaceCallback, SetFrameCallback, threadVars
  <2>2. prev' \in [at : PrevAt, frame : FrameOrNone]
    BY <1>0, NoFrameIsNone
       DEF StartPreview, StopPreview, CallerStep, StopSignals, JoinCapture, JoinPreview,
             StopClears, ReplaceCallback, SetFrameCallback, ThreadType, PrevGoto,
             PrevAt, threadVars
  <2>3. prevSleeps' \in BOOLEAN
    BY <1>0, Zenon
       DEF StartPreview, StopPreview, CallerStep, StopSignals, JoinCapture, JoinPreview,
             StopClears, ReplaceCallback, SetFrameCallback, ThreadType, SignalPreview,
             waitVars
  <2>4. sleepers' \subseteq Session \cup {Caller}
    BY <1>0
       DEF StartPreview, StopPreview, CallerStep, StopSignals, JoinCapture, JoinPreview,
             StopClears, ReplaceCallback, SetFrameCallback, ThreadType, SignalCapture,
             Sleep, waitVars
  <2>5. QED  BY <1>0, <2>1, <2>2, <2>3, <2>4 DEF ThreadType
<1>5. QED  BY <1>1, <1>2, <1>3, <1>4
   DEF BuffersType, CallerType, ThreadType, CapState, PreviewType

LEMMA UserTypes ==
  ASSUME PreviewType, FrameArrives \/ AddPreviewFrame
  PROVE  PreviewType'
<1>0. SourceType /\ BuffersType /\ CallerType /\ ThreadType
  BY TypeIsParts
<1>1. SourceType'
  BY <1>0, SourceKept DEF FrameArrives, AddPreviewFrame, SourceNext
<1>2. BuffersType'
  <2>1. CASE FrameArrives
    <3>1. copy' \in FrameOrNone
      BY <1>1, <2>1, NoFrameIsNone DEF FrameArrives, SourceType, FrameOrNone
    <3>2. pool' \in 0 .. PoolSize /\ frames' \in Int
      BY <1>0, <2>1, Getting DEF FrameArrives, BuffersType, poolVars
    <3>3. QED  BY <1>0, <2>1, <3>1, <3>2 DEF FrameArrives, BuffersType
  <2>2. CASE AddPreviewFrame
    <3>1. pool' \in 0 .. PoolSize /\ frames' \in Int
      BY <1>0, <2>2, Recycling DEF AddPreviewFrame, BuffersType, poolVars
    <3>2. previewQ' \in Seq(Frame) /\ Len(previewQ') <= QueueSize
      <4>1. CASE UNCHANGED previewQ
        BY <1>0, <4>1 DEF BuffersType
      <4>2. CASE copy # NoFrame /\ Len(previewQ) < QueueSize /\ previewQ' = Append(previewQ, copy)
        <5>1. copy \in Frame
          BY <1>0, <4>2, MaxSeqIsNat DEF BuffersType, FrameOrNone, NoFrame, Frame
        <5>2. QED  BY <1>0, <4>2, <5>1, PreviewSizes DEF BuffersType
      <4>3. QED  BY <2>2, <4>1, <4>2 DEF AddPreviewFrame
    <3>3. UNCHANGED captureQ /\ copy' = NoFrame
      BY <2>2 DEF AddPreviewFrame
    <3>4. QED  BY <1>0, <3>1, <3>2, <3>3, NoFrameIsNone DEF BuffersType
  <2>3. QED  BY <2>1, <2>2
<1>3. UNCHANGED <<flagVars, callerVars, threadVars, sleepers>>
  BY DEF FrameArrives, AddPreviewFrame, waitVars
<1>4. CallerType'
  BY <1>0, <1>3 DEF CallerType, flagVars, callerVars
<1>5. ThreadType'
  <2>1. prevSleeps' \in BOOLEAN
    BY <1>0, Zenon
       DEF FrameArrives, AddPreviewFrame, waitVars, SignalPreview, ThreadType
  <2>2. QED  BY <1>0, <1>3, <2>1 DEF ThreadType, threadVars
<1>6. QED  BY <1>1, <1>2, <1>4, <1>5
   DEF BuffersType, CallerType, ThreadType, CapState, PreviewType

LEMMA PrevTypes ==
  ASSUME PreviewType, PrevStep, prev.at = "begin" => session \in Session
  PROVE  PreviewType'
<1>0. SourceType /\ BuffersType /\ CallerType /\ ThreadType
  BY TypeIsParts
<1>1. SourceType'
  BY <1>0, SourceKept
     DEF PrevStep, StartStream, BeginPreview, PrevLoop, WaitPreviewFrame, Draw,
         AddCaptureFrame, PrevSignals, PrevCloses, SourceNext
<1>2. pool' \in 0 .. PoolSize /\ frames' \in Int
  <2>1. CASE BeginPreview
    BY <1>0, <2>1, Recycling DEF BeginPreview, BuffersType
  <2>2. CASE Draw
    BY <1>0, <2>2, Recycling, Converting DEF Draw, BuffersType
  <2>3. CASE AddCaptureFrame
    BY <1>0, <2>3, Recycling DEF AddCaptureFrame, BuffersType, poolVars
  <2>4. CASE UNCHANGED poolVars
    BY <1>0, <2>4 DEF BuffersType, poolVars
  <2>5. QED
    BY <2>1, <2>2, <2>3, <2>4
       DEF PrevStep, StartStream, PrevLoop, WaitPreviewFrame, PrevSignals, PrevCloses
<1>3. /\ previewQ' \in Seq(Frame) /\ Len(previewQ') <= QueueSize
      /\ prev' \in [at : PrevAt, frame : FrameOrNone]
  <2>1. CASE WaitPreviewFrame
    <3>1. CASE previewQ # <<>> /\ PrevGoto("draw", Head(previewQ)) /\ previewQ' = Tail(previewQ)
      <4>1. Head(previewQ) \in FrameOrNone
        BY <1>0, <3>1, NoFrameIsNone DEF BuffersType
      <4>2. QED  BY <1>0, <3>1, <4>1, PrevGoes, PreviewSizes DEF BuffersType, PrevAt
    <3>2. CASE UNCHANGED previewQ /\ \E at \in {"wait", "loop"} : PrevGoto(at, NoFrame)
      BY <1>0, <3>2, PrevGoes, NoFrameIsNone DEF BuffersType, PrevAt
    <3>3. QED  BY <2>1, <3>1, <3>2 DEF WaitPreviewFrame
  <2>2. CASE Draw
    <3>1. prev.frame \in FrameOrNone /\ UNCHANGED previewQ
      BY <1>0, <2>2 DEF ThreadType, Draw
    <3>2. QED  BY <1>0, <2>2, <3>1, PrevGoes, NoFrameIsNone
       DEF Draw, BuffersType, PrevAt
  <2>3. CASE ~WaitPreviewFrame /\ ~Draw
    <3>1. /\ previewQ' = <<>> \/ UNCHANGED previewQ
          /\ \E at \in PrevAt : PrevGoto(at, NoFrame)
      BY <2>3
         DEF PrevStep, StartStream, BeginPreview, PrevLoop, AddCaptureFrame, PrevSignals,
             PrevCloses, PrevAt
    <3>2. prev' \in [at : PrevAt, frame : FrameOrNone]
      <4>1. PICK at \in PrevAt : PrevGoto(at, NoFrame)
        BY <3>1
      <4>2. QED  BY <4>1, PrevGoes, NoFrameIsNone
    <3>3. CASE previewQ' = <<>>
      BY <3>2, <3>3, PreviewSizes
    <3>4. CASE UNCHANGED previewQ
      BY <1>0, <3>2, <3>4 DEF BuffersType
    <3>5. QED  BY <3>1, <3>3, <3>4
  <2>4. QED  BY <2>1, <2>2, <2>3
<1>4. captureQ' \in FrameOrNone /\ UNCHANGED copy
  BY <1>0
     DEF PrevStep, StartStream, BeginPreview, PrevLoop, WaitPreviewFrame, Draw,
         AddCaptureFrame, PrevSignals, PrevCloses, BuffersType, ThreadType
<1>5. cap' \in [Session -> CapState] /\ capThread' \in 0 .. MaxSession
  <2>1. CASE BeginPreview
    BY <1>0, <2>1, CapGoes, NoFrameIsNone DEF BeginPreview, CapAt, CallerType
  <2>2. CASE UNCHANGED <<cap, capThread>>
    BY <1>0, <2>2 DEF ThreadType
  <2>3. QED
    BY <2>1, <2>2
       DEF PrevStep, StartStream, PrevLoop, WaitPreviewFrame, Draw, AddCaptureFrame,
           PrevSignals, PrevCloses
<1>6. prevSleeps' \in BOOLEAN
  BY <1>0, Zenon
     DEF PrevStep, StartStream, BeginPreview, PrevLoop, WaitPreviewFrame, Draw, waitVars,
         AddCaptureFrame, PrevSignals, PrevCloses, ThreadType
<1>7. sleepers' \subseteq Session \cup {Caller}
  BY <1>0
     DEF PrevStep, StartStream, BeginPreview, PrevLoop, WaitPreviewFrame, Draw, waitVars,
         AddCaptureFrame, PrevSignals, PrevCloses, ThreadType, SignalCapture,
         BroadcastCapture
<1>8. UNCHANGED <<flagVars, callerVars>>
  BY DEF PrevStep, StartStream, BeginPreview, PrevLoop, WaitPreviewFrame, Draw,
         AddCaptureFrame, PrevSignals, PrevCloses
<1>9. CallerType'
  BY <1>0, <1>8 DEF CallerType, flagVars, callerVars
<1>10. QED
  BY <1>0, <1>1, <1>2, <1>3, <1>4, <1>5, <1>6, <1>7, <1>9
     DEF BuffersType, CallerType, ThreadType, CapState, PreviewType

LEMMA CapTypes ==
  ASSUME PreviewType, NEW s \in Session, CapStep(s)
  PROVE  PreviewType'
<1>0. SourceType /\ BuffersType /\ CallerType /\ ThreadType
  BY TypeIsParts
<1>1. UNCHANGED <<sourceVars, run, cb, previewQ, copy, callerVars, prev, capThread, prevSleeps>>
  BY DEF CapStep, CapClears, CapOuter, CapInner, WaitCaptureFrame, CapCalls, CapReturns,
         flagVars, waitVars
<1>2. SourceType'
  BY <1>0, <1>1, SourceKept
<1>3. pool' \in 0 .. PoolSize /\ frames' \in Int
  <2>1. CASE CapClears(s)
    BY <1>0, <2>1, Recycling DEF CapClears, BuffersType
  <2>2. CASE CapCalls(s)
    BY <1>0, <2>2, Recycling, Converting DEF CapCalls, BuffersType
  <2>3. CASE CapReturns(s)
    BY <1>0, <2>3, Recycling DEF CapReturns, BuffersType
  <2>4. CASE UNCHANGED poolVars
    BY <1>0, <2>4 DEF BuffersType, poolVars
  <2>5. QED
    BY <2>1, <2>2, <2>3, <2>4 DEF CapStep, CapOuter, CapInner, WaitCaptureFrame
<1>4. captureQ' \in FrameOrNone
  BY <1>0, NoFrameIsNone
     DEF CapStep, CapClears, CapOuter, CapInner, WaitCaptureFrame, CapCalls, CapReturns, BuffersType
<1>5. capturing' \in BOOLEAN
  BY <1>0, Zenon
     DEF CapStep, CapClears, CapOuter, CapInner, WaitCaptureFrame, CapCalls, CapReturns,
         CallerType, flagVars
<1>6. cap' \in [Session -> CapState]
  <2>1. CASE cap' = [cap EXCEPT ![s].at = "java", ![s].cb = cb]
    BY <1>0, <2>1 DEF ThreadType, CallerType, CapState, CapAt
  <2>2. CASE \E at \in CapAt, f \in FrameOrNone : CapGoto(s, at, f)
    BY <2>2, CapGoes
  <2>3. captureQ \in FrameOrNone /\ NoFrame \in FrameOrNone
    BY <1>0, NoFrameIsNone DEF BuffersType
  <2>4. QED
    BY <2>1, <2>2, <2>3
       DEF CapStep, CapClears, CapOuter, CapInner, WaitCaptureFrame, CapCalls, CapReturns, CapAt
<1>7. sleepers' \subseteq Session \cup {Caller}
  BY <1>0
     DEF CapStep, CapClears, CapOuter, CapInner, WaitCaptureFrame, CapCalls, CapReturns,
         ThreadType, waitVars, BroadcastCapture, Sleep
<1>8. BuffersType' /\ CallerType' /\ ThreadType'
  <2>1. BuffersType'
    BY <1>0, <1>1, <1>3, <1>4 DEF BuffersType
  <2>2. CallerType'
    BY <1>0, <1>1, <1>5 DEF CallerType, callerVars
  <2>3. ThreadType'
    BY <1>0, <1>1, <1>6, <1>7 DEF ThreadType
  <2>4. QED  BY <2>1, <2>2, <2>3
<1>9. QED  BY <1>2, <1>8 DEF BuffersType, CallerType, ThreadType, CapState, PreviewType

LEMMA WakeupTypes ==
  ASSUME PreviewType, SpuriousWakeup \/ UNCHANGED previewVars
  PROVE  PreviewType'
<1>0. SourceType /\ BuffersType /\ CallerType /\ ThreadType
  BY TypeIsParts
<1>1. UNCHANGED <<sourceVars, flagVars, previewQ, captureQ, poolVars, callerVars, copy, threadVars>>
  BY DEF SpuriousWakeup, previewVars
<1>2. SourceType'
  BY <1>0, <1>1, SourceKept
<1>3. BuffersType' /\ CallerType'
  BY <1>0, <1>1 DEF BuffersType, CallerType, poolVars, flagVars, callerVars
<1>4. prevSleeps' \in BOOLEAN
  BY <1>0, Zenon DEF SpuriousWakeup, previewVars, ThreadType, waitVars
<1>5. sleepers' \subseteq Session \cup {Caller}
  BY <1>0 DEF SpuriousWakeup, previewVars, ThreadType, waitVars
<1>6. ThreadType'
  BY <1>0, <1>1, <1>4, <1>5 DEF ThreadType, threadVars
<1>7. QED  BY <1>2, <1>3, <1>6
   DEF BuffersType, CallerType, ThreadType, CapState, PreviewType
-----------------------------------------------------------------------------
(* The frames the threads have *)

LEMMA CallerFrames ==
  ASSUME PreviewType, ThreadFrames,
         StartPreview \/ StopPreview \/ CallerStep
         \/ \E c \in Callback \cup {NoCallback} : SetFrameCallback(c)
  PROVE  ThreadFrames'
<1>1. UNCHANGED <<sourceVars, copy, cap>>
  BY DEF StartPreview, StopPreview, CallerStep, StopSignals, JoinCapture, JoinPreview,
         StopClears, ReplaceCallback, SetFrameCallback, threadVars
<1>2. prev.at \in PrevAt /\ session \in 0 .. MaxSession
  BY DEF PreviewType
<1>3. CASE StartPreview
  <2>1. prev'.at = "start" /\ prev'.frame = NoFrame
    BY <1>3, PrevGoes, NoFrameIsNone DEF StartPreview, PrevAt
  <2>2. session' = session + 1 /\ session' \in Session /\ run' = TRUE
    BY <1>2, <1>3, PreviewSizes DEF StartPreview, Session
  <2>3. cap[session'].at = "none"
    BY <1>2, <2>2 DEF ThreadFrames
  <2>4. \A s \in Session : s > session' => s > session
    BY <1>2, <2>2 DEF Session
  <2>5. QED  BY <1>1, <2>1, <2>2, <2>3, <2>4 DEF ThreadFrames, sourceVars
<1>4. CASE JoinPreview
  <2>1. prev'.at = "none" /\ prev'.frame = NoFrame
    BY <1>4, PrevGoes, NoFrameIsNone DEF JoinPreview, PrevAt
  <2>2. UNCHANGED session
    BY <1>4 DEF JoinPreview
  <2>3. QED  BY <1>1, <2>1, <2>2 DEF ThreadFrames, sourceVars
<1>5. CASE ~StartPreview /\ ~JoinPreview
  <2>1. UNCHANGED <<prev, session>>
    BY <1>5
       DEF StopPreview, CallerStep, StopSignals, JoinCapture, StopClears, ReplaceCallback,
           SetFrameCallback, threadVars
  <2>2. caller' \in {"idle", "clear", "setCallback"} /\ ~run' => prev.at = "none"
    BY <1>5
       DEF StopPreview, CallerStep, StopSignals, JoinCapture, StopClears, ReplaceCallback,
           SetFrameCallback, flagVars, ThreadFrames
  <2>3. QED  BY <1>1, <2>1, <2>2 DEF ThreadFrames, sourceVars
<1>6. QED  BY <1>3, <1>4, <1>5

LEMMA OtherFrames ==
  ASSUME PreviewType, ThreadFrames,
         \/ FrameArrives \/ AddPreviewFrame \/ PrevStep \/ SpuriousWakeup
         \/ \E s \in Session : CapStep(s)
  PROVE  ThreadFrames'
<1>1. UNCHANGED callerVars /\ UNCHANGED run
  BY
     DEF FrameArrives, AddPreviewFrame, PrevStep, SpuriousWakeup, StartStream, BeginPreview,
         PrevLoop, WaitPreviewFrame, Draw, AddCaptureFrame, PrevSignals, PrevCloses,
         CapStep,
         CapClears, CapOuter, CapInner, WaitCaptureFrame, CapCalls, CapReturns, flagVars
<1>2. ~calling' => copy' = NoFrame
  BY
     DEF FrameArrives, AddPreviewFrame, PrevStep, SpuriousWakeup, StartStream, BeginPreview,
         PrevLoop, WaitPreviewFrame, Draw, AddCaptureFrame, PrevSignals, PrevCloses,
         CapStep,
         CapClears, CapOuter, CapInner, WaitCaptureFrame, CapCalls, CapReturns,
         sourceVars,
         Open, Close, CallBegins, CallEnds, ThreadFrames
<1>3. CASE UNCHANGED <<prev, cap>>
  BY <1>1, <1>2, <1>3 DEF ThreadFrames, callerVars
<1>4. CASE PrevStep
  <2>1. PICK at \in PrevAt \ {"none", "start"}, f \in FrameOrNone :
          /\ PrevGoto(at, f)
          /\ f # NoFrame <=> at \in {"draw", "add"}
          /\ at = "begin" => prev.at = "start"
    <3>1. CASE WaitPreviewFrame
      <4>1. CASE previewQ # <<>> /\ PrevGoto("draw", Head(previewQ))
        <5>1. Head(previewQ) \in Frame
          BY <4>1 DEF PreviewType
        <5>2. QED  BY <4>1, <5>1, NoFrameIsNone DEF PrevAt
      <4>2. CASE PrevGoto("wait", NoFrame) \/ PrevGoto("loop", NoFrame)
        BY <4>2, NoFrameIsNone DEF PrevAt
      <4>3. QED  BY <3>1, <4>1, <4>2 DEF WaitPreviewFrame
    <3>2. CASE Draw
      <4>1. prev.frame \in FrameOrNone /\ prev.frame # NoFrame
        BY <3>2 DEF PreviewType, ThreadFrames, Draw
      <4>2. QED  BY <3>2, <4>1, NoFrameIsNone DEF Draw, PrevAt
    <3>3. CASE PrevStep /\ ~WaitPreviewFrame /\ ~Draw
      <4>1. \E at \in PrevAt \ {"none", "start", "draw", "add"} :
              PrevGoto(at, NoFrame) /\ (at = "begin" => prev.at = "start")
        BY <3>3
           DEF PrevStep, StartStream, BeginPreview, PrevLoop, AddCaptureFrame, PrevSignals,
               PrevCloses, PrevAt
      <4>2. QED  BY <4>1, NoFrameIsNone
    <3>4. QED  BY <1>4, <3>1, <3>2, <3>3
  <2>2. prev'.at = at /\ prev'.frame = f
    BY <2>1, PrevGoes
  <2>3. prev.at # "none"
    BY <1>4
       DEF PrevStep, StartStream, BeginPreview, PrevLoop, WaitPreviewFrame, Draw,
           AddCaptureFrame, PrevSignals, PrevCloses
  <2>4. caller \in {"idle", "clear", "setCallback"} => run
    BY <2>3 DEF ThreadFrames
  <2>5. CASE UNCHANGED cap
    BY <1>1, <1>2, <2>1, <2>2, <2>4, <2>5 DEF ThreadFrames, callerVars
  <2>6. CASE BeginPreview
    <3>1. /\ session \in Session
          /\ cap'[session].at = "begin" /\ cap'[session].frame = NoFrame
          /\ \A r \in Session \ {session} : cap'[r] = cap[r]
      BY <2>6, CapGoes, NoFrameIsNone DEF BeginPreview, ThreadFrames, CapAt
    <3>2. prev'.at = "loop"
      BY <2>6, PrevGoes, NoFrameIsNone DEF BeginPreview, PrevAt
    <3>3. session \in Int
      BY <3>1 DEF Session
    <3>4. \A s \in Session : s > session => s # session
      BY <3>3 DEF Session
    <3>5. QED
      BY <1>1, <1>2, <2>1, <2>2, <2>4, <3>1, <3>2, <3>4 DEF ThreadFrames, callerVars
  <2>7. QED
    BY <1>4, <2>5, <2>6
       DEF PrevStep, StartStream, PrevLoop, WaitPreviewFrame, Draw, AddCaptureFrame,
           PrevSignals, PrevCloses
<1>5. CASE \E s \in Session : CapStep(s)
  <2>1. PICK s \in Session : CapStep(s)
    BY <1>5
  <2>2. UNCHANGED prev
    BY <2>1
       DEF CapStep, CapClears, CapOuter, CapInner, WaitCaptureFrame, CapCalls, CapReturns
  <2>3. cap[s] \in CapState /\ cap[s].at # "none" /\ cap \in [Session -> CapState]
    BY <2>1
       DEF CapStep, CapClears, CapOuter, CapInner, WaitCaptureFrame, CapCalls, CapReturns,
           PreviewType, CapState
  <2>4. /\ cap'[s].at # "none"
        /\ cap'[s].frame # NoFrame <=> cap'[s].at \in {"got", "java"}
        /\ \A r \in Session \ {s} : cap'[r] = cap[r]
    <3>1. CASE cap[s].at = "got" /\ cap' = [cap EXCEPT ![s].at = "java", ![s].cb = cb]
      BY <2>3, <3>1 DEF CapState, ThreadFrames
    <3>2. CASE \E at \in CapAt \ {"none"}, f \in FrameOrNone :
                 CapGoto(s, at, f) /\ (f # NoFrame <=> at \in {"got", "java"})
      BY <3>2, CapGoes
    <3>3. captureQ \in FrameOrNone /\ NoFrame \in FrameOrNone
      BY NoFrameIsNone DEF PreviewType
    <3>4. QED
      BY <2>1, <3>1, <3>2, <3>3
         DEF CapStep, CapClears, CapOuter, CapInner, WaitCaptureFrame, CapCalls, CapReturns, CapAt
  <2>5. QED  BY <1>1, <1>2, <2>2, <2>3, <2>4 DEF ThreadFrames, callerVars
<1>6. UNCHANGED <<prev, cap>> \/ PrevStep \/ \E s \in Session : CapStep(s)
  BY DEF FrameArrives, AddPreviewFrame, SpuriousWakeup, threadVars
<1>7. QED  BY <1>3, <1>4, <1>5, <1>6
-----------------------------------------------------------------------------
(* The buffers that are owned *)

LEMMA OwnedTypes ==
  ASSUME PreviewType
  PROVE  /\ Free \in Int /\ Queued \in Nat /\ InHand \in Nat
         /\ Len(previewQ) \in Nat /\ One(captureQ) \in Nat
         /\ One(copy) \in Nat /\ One(prev.frame) \in Nat /\ Cardinality(Holding) \in Nat
<1>1. /\ Len(previewQ) \in Nat /\ pool \in Int /\ frames \in Int
  BY PreviewSizes DEF PreviewType
<1>2. One(captureQ) \in Nat /\ One(copy) \in Nat /\ One(prev.frame) \in Nat
  BY DEF One
<1>3. QED  BY <1>1, <1>2, HoldingIsFinite DEF Free, Queued, InHand

LEMMA SameInHand ==
  ASSUME UNCHANGED copy, One(prev'.frame) = One(prev.frame), Holding' = Holding
  PROVE  InHand' = InHand
BY DEF InHand

LEMMA CallerOwns ==
  ASSUME PreviewType, ThreadFrames,
         StartPreview \/ StopPreview \/ CallerStep
         \/ \E c \in Callback \cup {NoCallback} : SetFrameCallback(c)
  PROVE  Lost' = Lost
<1>1. UNCHANGED copy /\ Holding' = Holding
  BY HoldingStays
     DEF StartPreview, StopPreview, CallerStep, StopSignals, JoinCapture, JoinPreview,
         StopClears, ReplaceCallback, SetFrameCallback, threadVars
<1>2. One(prev'.frame) = One(prev.frame)
  <2>1. CASE StartPreview \/ JoinPreview
    <3>1. prev'.frame = NoFrame
      BY <2>1, PrevGoes, NoFrameIsNone DEF StartPreview, JoinPreview, PrevAt
    <3>2. prev.frame = NoFrame
      BY <2>1 DEF StartPreview, JoinPreview, ThreadFrames
    <3>3. QED  BY <3>1, <3>2
  <2>2. CASE ~StartPreview /\ ~JoinPreview
    BY <2>2
       DEF StopPreview, CallerStep, StopSignals, JoinCapture, StopClears, ReplaceCallback,
           SetFrameCallback, threadVars
  <2>3. QED  BY <2>1, <2>2
<1>3. InHand' = InHand
  BY <1>1, <1>2, SameInHand
<1>4. CASE StopClears
  <2>1. Recycle(Queued) /\ Queued \in Nat
    BY <1>4, OwnedTypes DEF StopClears, Queued, One
  <2>2. Free' = Free - Queued
    BY <2>1, Recycling DEF PreviewType
  <2>3. Queued' = 0
    BY <1>4 DEF StopClears, Queued, One
  <2>4. QED  BY <1>3, <2>2, <2>3, OwnedTypes DEF Lost
<1>5. CASE ~StopClears
  <2>1. UNCHANGED <<previewQ, captureQ, pool, frames>>
    BY <1>5
       DEF StartPreview, StopPreview, CallerStep, StopSignals, JoinCapture, JoinPreview,
           ReplaceCallback, SetFrameCallback, poolVars
  <2>2. QED  BY <1>3, <2>1 DEF Lost, Queued, Free
<1>6. QED  BY <1>4, <1>5

LEMMA UserOwns ==
  ASSUME PreviewType, ThreadFrames, FrameArrives \/ AddPreviewFrame
  PROVE  Lost' = Lost
<1>1. Holding' = Holding /\ UNCHANGED <<prev, captureQ>>
  BY HoldingStays DEF FrameArrives, AddPreviewFrame, threadVars
<1>2. One(copy') \in Nat /\ InHand' = InHand - One(copy) + One(copy')
  BY <1>1, OwnedTypes DEF InHand, One
<1>3. CASE FrameArrives
  <2>1. One(copy) = 0 /\ Queued' = Queued
    BY <1>1, <1>3 DEF FrameArrives, CallBegins, ThreadFrames, Queued, One
  <2>2. CASE run
    <3>1. Free' = Free + 1
      BY <1>3, <2>2, Getting DEF FrameArrives, PreviewType
    <3>2. One(copy') = 1
      BY <1>3, <2>2 DEF FrameArrives, CallBegins, NoFrame, PreviewType, SourceType, One
    <3>3. QED  BY <1>2, <2>1, <3>1, <3>2, OwnedTypes DEF Lost
  <2>3. CASE ~run
    <3>1. One(copy') = 0 /\ Free' = Free
      BY <1>3, <2>3 DEF FrameArrives, poolVars, One, Free
    <3>2. QED  BY <1>2, <2>1, <3>1, OwnedTypes DEF Lost
  <2>4. QED  BY <2>2, <2>3
<1>4. CASE AddPreviewFrame
  <2>1. One(copy') = 0
    BY <1>4 DEF AddPreviewFrame, One
  <2>2. CASE copy # NoFrame /\ previewQ' = Append(previewQ, copy) /\ UNCHANGED poolVars
    <3>1. Len(previewQ') = Len(previewQ) + 1
      BY <2>2 DEF PreviewType
    <3>2. One(copy) = 1 /\ Queued' = Queued + 1 /\ Free' = Free
      BY <1>1, <2>2, <3>1, OwnedTypes DEF Queued, Free, One, poolVars
    <3>3. QED  BY <1>2, <2>1, <3>2, OwnedTypes DEF Lost
  <2>3. CASE UNCHANGED previewQ /\ (copy # NoFrame => Recycle(1))
                                /\ (copy = NoFrame => UNCHANGED poolVars)
    <3>1. Free' = Free - One(copy)
      <4>1. CASE copy = NoFrame
        BY <2>3, <4>1, OwnedTypes DEF One, poolVars, Free
      <4>2. CASE copy # NoFrame
        BY <2>3, <4>2, Recycling DEF One, PreviewType
      <4>3. QED  BY <4>1, <4>2
    <3>2. Queued' = Queued
      BY <1>1, <2>3 DEF Queued
    <3>3. QED  BY <1>2, <2>1, <3>1, <3>2, OwnedTypes DEF Lost
  <2>4. QED  BY <1>4, <2>2, <2>3 DEF AddPreviewFrame
<1>5. QED  BY <1>3, <1>4

LEMMA PrevOwns ==
  ASSUME PreviewType, ThreadFrames, PrevStep
  PROVE  Lost' = Lost \/ (~run /\ Lost' = Lost + 1)
<1>1. UNCHANGED copy
  BY DEF PrevStep, StartStream, BeginPreview, PrevLoop, WaitPreviewFrame, Draw,
         AddCaptureFrame, PrevSignals, PrevCloses
<1>2. CASE BeginPreview
  <2>1. /\ prev'.frame = NoFrame /\ prev.frame = NoFrame
        /\ UNCHANGED captureQ /\ Len(previewQ') = 0
    BY <1>2, PrevGoes, NoFrameIsNone DEF BeginPreview, ThreadFrames, PrevAt
  <2>2. Free' = Free - Len(previewQ)
    BY <1>2, Recycling, OwnedTypes DEF BeginPreview, PreviewType
  <2>3. Queued' = Queued - Len(previewQ)
    BY <2>1, OwnedTypes DEF Queued
  <2>4. Cardinality(Holding') = Cardinality(Holding)
    <3>1. session \in Session /\ cap[session].frame = NoFrame
      BY <1>2 DEF BeginPreview, ThreadFrames
    <3>2. /\ Cardinality(Holding') + One(cap[session].frame)
               = Cardinality(Holding) + One(NoFrame)
          /\ Cardinality(Holding') \in Nat
      BY <1>2, <3>1, CapGoes, NoFrameIsNone DEF BeginPreview, CapAt
    <3>3. QED  BY <3>1, <3>2, OwnedTypes DEF One
  <2>5. InHand' = InHand
    BY <1>1, <2>1, <2>4 DEF InHand
  <2>6. QED  BY <2>2, <2>3, <2>5, OwnedTypes DEF Lost
<1>3. CASE ~BeginPreview
  <2>1. Holding' = Holding
    BY <1>3, HoldingStays
       DEF PrevStep, StartStream, PrevLoop, WaitPreviewFrame, Draw, AddCaptureFrame,
           PrevSignals, PrevCloses
  <2>2. One(prev'.frame) \in Nat /\ InHand' = InHand - One(prev.frame) + One(prev'.frame)
    BY <1>1, <2>1, OwnedTypes DEF InHand, One
  <2>3. CASE WaitPreviewFrame
    <3>1. UNCHANGED <<captureQ, pool, frames>> /\ One(prev.frame) = 0
      BY <2>3 DEF WaitPreviewFrame, poolVars, ThreadFrames, One
    <3>2. Len(previewQ') = Len(previewQ) - One(prev'.frame)
      <4>1. CASE previewQ # <<>> /\ PrevGoto("draw", Head(previewQ)) /\ previewQ' = Tail(previewQ)
        <5>1. Head(previewQ) \in Frame /\ Len(previewQ') = Len(previewQ) - 1
          BY <4>1 DEF PreviewType
        <5>2. prev'.frame = Head(previewQ)
          BY <4>1, <5>1, PrevGoes, NoFrameIsNone DEF PrevAt
        <5>3. QED  BY <5>1, <5>2, NoFrameIsNone DEF One
      <4>2. CASE UNCHANGED previewQ /\ (PrevGoto("wait", NoFrame) \/ PrevGoto("loop", NoFrame))
        <5>1. prev'.frame = NoFrame
          BY <4>2, PrevGoes, NoFrameIsNone DEF PrevAt
        <5>2. QED  BY <4>2, <5>1, OwnedTypes DEF One
      <4>3. QED  BY <2>3, <4>1, <4>2 DEF WaitPreviewFrame
    <3>3. Queued' = Queued - One(prev'.frame) /\ Free' = Free
      BY <2>2, <3>1, <3>2, OwnedTypes DEF Queued, Free
    <3>4. QED  BY <2>2, <3>1, <3>3, OwnedTypes DEF Lost
  <2>4. CASE Draw
    <3>1. prev.frame \in FrameOrNone /\ prev.frame # NoFrame
      BY <2>4 DEF Draw, ThreadFrames, PreviewType
    <3>2. Queued' = Queued
      BY <2>4 DEF Draw, Queued
    <3>3. CASE PrevGoto("add", prev.frame) /\ (Convert \/ UNCHANGED poolVars)
      <4>1. prev'.frame = prev.frame
        BY <3>1, <3>3, PrevGoes DEF PrevAt
      <4>2. InHand' = InHand
        BY <2>2, <4>1, OwnedTypes
      <4>3. Free' = Free
        BY <3>3, Converting DEF PreviewType
      <4>4. QED  BY <3>2, <4>2, <4>3 DEF Lost
    <3>4. CASE PrevGoto("loop", NoFrame) /\ Recycle(1)
      <4>1. One(prev'.frame) = 0 /\ One(prev.frame) = 1
        BY <3>1, <3>4, PrevGoes, NoFrameIsNone DEF PrevAt, One
      <4>2. InHand' = InHand - 1
        BY <2>2, <4>1, OwnedTypes
      <4>3. Free' = Free - 1
        BY <3>4, Recycling DEF PreviewType
      <4>4. QED  BY <3>2, <4>2, <4>3, OwnedTypes DEF Lost
    <3>5. QED  BY <2>4, <3>3, <3>4 DEF Draw
  <2>5. CASE AddCaptureFrame
    <3>1. UNCHANGED previewQ /\ One(prev.frame) = 1 /\ One(prev'.frame) = 0
      BY <2>5, PrevGoes, NoFrameIsNone DEF AddCaptureFrame, ThreadFrames, PrevAt, One
    <3>2. CASE run
      <4>1. Free' = Free - One(captureQ)
        <5>1. CASE captureQ = NoFrame
          BY <2>5, <3>2, <5>1, OwnedTypes DEF AddCaptureFrame, One, poolVars, Free
        <5>2. CASE captureQ # NoFrame
          BY <2>5, <3>2, <5>2, Recycling DEF AddCaptureFrame, One, PreviewType
        <5>3. QED  BY <5>1, <5>2
      <4>2. One(captureQ') = 1
        BY <2>5, <3>1, <3>2 DEF AddCaptureFrame, One
      <4>3. Queued' = Queued - One(captureQ) + 1
        BY <3>1, <4>2, OwnedTypes DEF Queued
      <4>4. InHand' = InHand - 1
        BY <2>2, <3>1, OwnedTypes
      <4>5. One(captureQ) = 0 \/ One(captureQ) = 1
        BY DEF One
      <4>6. Lost' = Lost
        <5>1. CASE One(captureQ) = 0
          <6>1. Free' = Free /\ Queued' = Queued + 1
            BY <4>1, <4>3, <5>1, OwnedTypes
          <6>2. QED  BY <4>4, <6>1, OwnedTypes DEF Lost
        <5>2. CASE One(captureQ) = 1
          <6>1. Free' = Free - 1 /\ Queued' = Queued
            BY <4>1, <4>3, <5>2, OwnedTypes
          <6>2. QED  BY <4>4, <6>1, OwnedTypes DEF Lost
        <5>3. QED  BY <4>5, <5>1, <5>2
      <4>7. QED  BY <4>6
    <3>3. CASE ~run
      <4>1. Queued' = Queued /\ Free' = Free
        BY <2>5, <3>1, <3>3 DEF AddCaptureFrame, poolVars, Queued, Free
      <4>2. QED  BY <2>2, <3>1, <3>3, <4>1, OwnedTypes DEF Lost
    <3>4. QED  BY <3>2, <3>3
  <2>6. CASE StartStream \/ PrevLoop \/ PrevSignals \/ PrevCloses
    <3>1. UNCHANGED <<captureQ, previewQ, pool, frames>> /\ One(prev.frame) = 0
      BY <2>6
         DEF StartStream, PrevLoop, PrevSignals, PrevCloses, poolVars, ThreadFrames, One
    <3>2. One(prev'.frame) = 0
      BY <2>6 DEF StartStream, PrevLoop, PrevSignals, PrevCloses, PrevGoto, One
    <3>3. Queued' = Queued /\ Free' = Free
      BY <3>1 DEF Queued, Free
    <3>4. QED  BY <2>2, <3>1, <3>2, <3>3, OwnedTypes DEF Lost
  <2>7. QED  BY <1>3, <2>3, <2>4, <2>5, <2>6 DEF PrevStep
<1>4. QED  BY <1>2, <1>3

LEMMA CapOwns ==
  ASSUME PreviewType, ThreadFrames, NEW s \in Session, CapStep(s)
  PROVE  Lost' = Lost
<1>1. UNCHANGED <<copy, previewQ, prev>>
  BY DEF CapStep, CapClears, CapOuter, CapInner, WaitCaptureFrame, CapCalls, CapReturns
<1>2. /\ cap[s].frame \in FrameOrNone
      /\ cap[s].frame # NoFrame <=> cap[s].at \in {"got", "java"}
  BY DEF PreviewType, ThreadFrames
<1>3. ASSUME NEW at \in CapAt, NEW f \in FrameOrNone, CapGoto(s, at, f)
      PROVE  InHand' = InHand - One(cap[s].frame) + One(f)
  <2>1. /\ Cardinality(Holding') \in Nat
        /\ Cardinality(Holding') + One(cap[s].frame) = Cardinality(Holding) + One(f)
    BY <1>3, CapGoes
  <2>2. InHand' = One(copy) + One(prev.frame) + Cardinality(Holding')
    BY <1>1 DEF InHand
  <2>3. One(f) \in Nat /\ One(cap[s].frame) \in Nat
    BY DEF One
  <2>4. Cardinality(Holding') = Cardinality(Holding) - One(cap[s].frame) + One(f)
    BY <2>1, <2>3, OwnedTypes
  <2>5. QED  BY <2>2, <2>3, <2>4, OwnedTypes DEF InHand
<1>4. One(NoFrame) = 0 /\ (cap[s].frame = NoFrame => One(cap[s].frame) = 0)
      /\ (cap[s].frame # NoFrame => One(cap[s].frame) = 1)
  BY DEF One
<1>5. CASE CapClears(s)
  <2>1. cap[s].frame = NoFrame /\ captureQ' = NoFrame /\ Recycle(One(captureQ))
    BY <1>2, <1>5 DEF CapClears, One
  <2>2. InHand' = InHand
    BY <1>3, <1>4, <1>5, <2>1, NoFrameIsNone, OwnedTypes DEF CapClears, CapAt
  <2>3. Free' = Free - One(captureQ)
    BY <2>1, Recycling, OwnedTypes DEF PreviewType
  <2>4. Queued' = Queued - One(captureQ)
    BY <1>1, <1>4, <2>1, OwnedTypes DEF Queued
  <2>5. QED  BY <2>2, <2>3, <2>4, OwnedTypes DEF Lost
<1>6. CASE CapOuter(s) \/ CapInner(s)
  <2>1. cap[s].frame = NoFrame /\ UNCHANGED <<captureQ, pool, frames>>
    BY <1>2, <1>6 DEF CapOuter, CapInner, poolVars
  <2>2. PICK at \in CapAt : CapGoto(s, at, NoFrame)
    BY <1>6 DEF CapOuter, CapInner, CapAt
  <2>3. InHand' = InHand
    BY <1>3, <1>4, <2>1, <2>2, NoFrameIsNone, OwnedTypes
  <2>4. QED  BY <1>1, <2>1, <2>3 DEF Lost, Queued, Free
<1>7. CASE WaitCaptureFrame(s)
  <2>1. cap[s].frame = NoFrame /\ Free' = Free
    BY <1>2, <1>7 DEF WaitCaptureFrame, poolVars, Free
  <2>2. CASE CapGoto(s, "got", captureQ) /\ captureQ # NoFrame /\ captureQ' = NoFrame
    <3>1. captureQ \in FrameOrNone
      BY DEF PreviewType
    <3>2. One(captureQ) = 1 /\ InHand' = InHand + 1
      BY <1>3, <1>4, <2>1, <2>2, <3>1, OwnedTypes DEF CapAt, One
    <3>3. Queued' = Queued - 1
      BY <1>1, <1>4, <2>2, <3>2, OwnedTypes DEF Queued
    <3>4. QED  BY <2>1, <3>2, <3>3, OwnedTypes DEF Lost
  <2>3. CASE /\ CapGoto(s, "wait", NoFrame) \/ CapGoto(s, "inner", NoFrame)
             /\ UNCHANGED captureQ
    <3>1. InHand' = InHand
      BY <1>3, <1>4, <2>1, <2>3, NoFrameIsNone, OwnedTypes DEF CapAt
    <3>2. QED  BY <1>1, <2>1, <2>3, <3>1 DEF Lost, Queued
  <2>4. QED  BY <1>7, <2>2, <2>3 DEF WaitCaptureFrame
<1>8. CASE CapCalls(s) \/ CapReturns(s)
  <2>1. cap[s].frame # NoFrame /\ Queued' = Queued
    BY <1>1, <1>2, <1>8 DEF CapCalls, CapReturns, Queued
  <2>2. CASE CapGoto(s, "inner", NoFrame) /\ Recycle(1)
    <3>1. InHand' = InHand - 1
      BY <1>3, <1>4, <2>1, <2>2, NoFrameIsNone, OwnedTypes DEF CapAt
    <3>2. Free' = Free - 1
      BY <2>2, Recycling DEF PreviewType
    <3>3. QED  BY <2>1, <3>1, <3>2, OwnedTypes DEF Lost
  <2>3. CASE /\ cap' = [cap EXCEPT ![s].at = "java", ![s].cb = cb]
             /\ Convert \/ UNCHANGED poolVars
    <3>1. cap \in [Session -> CapState]
      BY DEF PreviewType, CapState
    <3>2. Holding' = Holding
      BY <2>3, <3>1 DEF Holding, CapState
    <3>3. InHand' = InHand
      BY <1>1, <3>2 DEF InHand
    <3>4. Free' = Free
      BY <2>3, Converting DEF PreviewType
    <3>5. QED  BY <2>1, <3>3, <3>4 DEF Lost
  <2>4. QED  BY <1>8, <2>2, <2>3 DEF CapCalls, CapReturns
<1>9. QED  BY <1>5, <1>6, <1>7, <1>8 DEF CapStep
-----------------------------------------------------------------------------
LEMMA StepsKeep ==
  ASSUME PreviewType, ThreadFrames, [PreviewNext]_previewVars
  PROVE  /\ PreviewType' /\ ThreadFrames'
         /\ Lost' = Lost \/ (~run /\ Lost' = Lost + 1)
<1>1. CASE \/ StartPreview \/ StopPreview \/ CallerStep
           \/ \E c \in Callback \cup {NoCallback} : SetFrameCallback(c)
  BY <1>1, CallerTypes, CallerFrames, CallerOwns
<1>2. CASE FrameArrives \/ AddPreviewFrame
  BY <1>2, UserTypes, OtherFrames, UserOwns
<1>3. CASE PrevStep
  BY <1>3, PrevTypes, OtherFrames, PrevOwns DEF ThreadFrames
<1>4. CASE \E s \in Session : CapStep(s)
  BY <1>4, CapTypes, OtherFrames, CapOwns
<1>5. CASE SpuriousWakeup \/ UNCHANGED previewVars
  <2>1. PreviewType'
    BY <1>5, WakeupTypes
  <2>2. UNCHANGED <<previewQ, captureQ, pool, frames, copy, prev, cap, sourceVars, session, caller, run>>
    BY <1>5 DEF SpuriousWakeup, previewVars, threadVars, poolVars, callerVars, flagVars
  <2>3. ThreadFrames'
    BY <2>2 DEF ThreadFrames, sourceVars
  <2>4. Holding' = Holding
    BY <2>2, HoldingStays
  <2>5. Lost' = Lost
    BY <2>2, <2>4 DEF Lost, Free, Queued, InHand
  <2>6. QED  BY <2>1, <2>3, <2>5
<1>6. QED  BY <1>1, <1>2, <1>3, <1>4, <1>5 DEF PreviewNext

LostIsRest == Lost \in Int /\ Lost = frames - Owned /\ (NoFrameTwice <=> Lost >= 0)

LEMMA LostIsCount == PreviewType => LostIsRest
<1> SUFFICES ASSUME PreviewType PROVE LostIsRest
  OBVIOUS
<1>1. pool \in Int /\ frames \in Int /\ Queued \in Int /\ InHand \in Int
  BY OwnedTypes, PreviewSizes DEF PreviewType
<1>2. QED  BY <1>1 DEF LostIsRest, Lost, Owned, Free, NoFrameTwice

\* The inductive invariant: nothing is owned at first, and what a step recycles
\* it has.
LEMMA BufferInvariance == PreviewSpec => []BufferInv
<1>1. PreviewInit => BufferInv
  <2> SUFFICES ASSUME PreviewInit PROVE BufferInv
    OBVIOUS
  <2>1. SourceType
    <3>1. open \in BOOLEAN /\ calling \in BOOLEAN
      BY Zenon DEF PreviewInit, SourceInit
    <3>2. current \in 0 .. MaxSeq
      BY MaxSeqIsNat DEF PreviewInit, SourceInit
    <3>3. QED  BY <3>1, <3>2 DEF SourceType
  <2>2. previewQ \in Seq(Frame) /\ Len(previewQ) = 0
    BY DEF PreviewInit
  <2>3. cap \in [Session -> CapState]
    BY NoFrameIsNone DEF PreviewInit, CapState, CapAt
  <2>4. PreviewType
    <3>1. BuffersType
      BY <2>2, NoFrameIsNone, PreviewSizes DEF PreviewInit, BuffersType
    <3>2. run \in BOOLEAN /\ capturing \in BOOLEAN /\ prevSleeps \in BOOLEAN
      BY Zenon DEF PreviewInit
    <3>3. CallerType
      BY <3>2, PreviewSizes DEF PreviewInit, CallerType, CallerAt
    <3>4. prev \in [at : PrevAt, frame : FrameOrNone]
      BY NoFrameIsNone DEF PreviewInit, PrevAt
    <3>5. ThreadType
      BY <2>3, <3>2, <3>4, PreviewSizes DEF PreviewInit, ThreadType
    <3>6. QED  BY <2>1, <3>1, <3>3, <3>5, TypeIsParts
  <2>5. ThreadFrames
    BY NoFrameIsNone DEF PreviewInit, ThreadFrames
  <2>6. Holding = {}
    BY DEF PreviewInit, Holding
  <2>7. Cardinality(Holding) = 0
    BY <2>6, FS_EmptySet
  <2>8. Queued = 0 /\ InHand = 0 /\ Free = 0
    BY <2>2, <2>7 DEF PreviewInit, Queued, InHand, Free, One
  <2>9. Lost >= 0
    BY <2>8 DEF Lost
  <2>10. QED  BY <2>4, <2>5, <2>9, LostIsCount DEF BufferInv, LostIsRest
<1>2. BufferInv /\ [PreviewNext]_previewVars => BufferInv'
  <2> SUFFICES ASSUME BufferInv, [PreviewNext]_previewVars PROVE BufferInv'
    OBVIOUS
  <2>1. PreviewType' /\ ThreadFrames' /\ (Lost' = Lost \/ Lost' = Lost + 1)
    BY StepsKeep DEF BufferInv
  <2>2. Lost \in Int /\ Lost >= 0
    BY LostIsCount DEF BufferInv, LostIsRest
  <2>3. Lost' >= 0
    BY <2>1, <2>2
  <2>4. PreviewType' => LostIsRest'
    BY LostIsCount, PTL
  <2>5. QED  BY <2>1, <2>3, <2>4 DEF BufferInv, LostIsRest
<1>3. QED  BY <1>1, <1>2, PTL DEF PreviewSpec

\* The values the threads of the preview work with are of their types.
THEOREM PreviewTypeCorrect == PreviewSpec => []PreviewType
BY BufferInvariance, PTL DEF BufferInv

\* No frame buffer is recycled twice, or while a queue or a thread has it,
\* however the threads interleave and the preview is stopped and started.
THEOREM NoFrameIsTwice == PreviewSpec => []NoFrameTwice
BY BufferInvariance, PTL DEF BufferInv

\* A buffer is lost only while the preview is being stopped, one at a time.
THEOREM StopLosesOne == PreviewSpec => LostOnlyByStop
<1>1. BufferInv /\ BufferInv' /\ [PreviewNext]_previewVars
        => [frames' - Owned' # frames - Owned
              => ~run /\ frames' - Owned' = frames - Owned + 1]_previewVars
  <2> SUFFICES ASSUME BufferInv, BufferInv', [PreviewNext]_previewVars
               PROVE  frames' - Owned' # frames - Owned
                        => ~run /\ frames' - Owned' = frames - Owned + 1
    OBVIOUS
  <2>1. Lost = frames - Owned
    BY LostIsCount DEF BufferInv, LostIsRest
  <2>2. PreviewType' => LostIsRest'
    BY LostIsCount, PTL
  <2>3. QED  BY <2>1, <2>2, StepsKeep DEF BufferInv, LostIsRest
<1>2. QED  BY <1>1, BufferInvariance, PTL DEF PreviewSpec, LostOnlyByStop

-----------------------------------------------------------------------------
(* Wake-ups: nobody sleeps while there is a frame for it.                   *)

PrevIsAwake == prevSleeps => prev.at = "wait" /\ previewQ = <<>>
CaptureIsAwake ==
  \A s \in sleepers \ {Caller} : cap[s].at = "wait" /\ captureQ = NoFrame

LEMMA PrevWakes ==
  ASSUME PreviewType, ThreadFrames, PrevIsAwake, [PreviewNext]_previewVars
  PROVE  PrevIsAwake'
<1> USE DEF PrevIsAwake
<1>1. CASE StartPreview
  BY <1>1 DEF StartPreview, ThreadFrames, waitVars
<1>2. CASE StopPreview \/ CallerStep \/ \E c \in Callback \cup {NoCallback} : SetFrameCallback(c)
  BY <1>2
     DEF StopPreview, CallerStep, StopSignals, SignalPreview, JoinCapture, JoinPreview,
         StopClears, ReplaceCallback, SetFrameCallback, threadVars, waitVars
<1>3. CASE FrameArrives \/ AddPreviewFrame
  BY <1>3 DEF FrameArrives, AddPreviewFrame, SignalPreview, threadVars, waitVars
<1>4. CASE WaitPreviewFrame
  <2>1. CASE prev.at = "fetch" /\ previewQ = <<>>
    <3>1. PrevGoto("wait", NoFrame) /\ UNCHANGED previewQ
      BY <1>4, <2>1 DEF WaitPreviewFrame
    <3>2. prev'.at = "wait"
      BY <3>1 DEF PrevGoto
    <3>3. QED  BY <2>1, <3>1, <3>2
  <2>2. CASE ~(prev.at = "fetch" /\ previewQ = <<>>)
    BY <1>4, <2>2 DEF WaitPreviewFrame
  <2>3. QED  BY <2>1, <2>2
<1>5. CASE PrevStep /\ ~WaitPreviewFrame
  BY <1>5
     DEF PrevStep, StartStream, BeginPreview, PrevLoop, Draw, AddCaptureFrame,
         PrevSignals, PrevCloses, waitVars
<1>6. CASE \E s \in Session : CapStep(s)
  BY <1>6
     DEF CapStep, CapClears, CapOuter, CapInner, WaitCaptureFrame, CapCalls, CapReturns,
         waitVars
<1>7. CASE SpuriousWakeup \/ UNCHANGED previewVars
  BY <1>7 DEF SpuriousWakeup, previewVars, threadVars, waitVars
<1>8. QED  BY <1>1, <1>2, <1>3, <1>4, <1>5, <1>6, <1>7 DEF PreviewNext

\* Who is woken, or was not asleep before, does not disturb it.
LEMMA FewerSleep ==
  ASSUME CaptureIsAwake, sleepers' \subseteq sleepers \cup {Caller}, UNCHANGED cap,
         captureQ' \in {captureQ, NoFrame}
  PROVE  CaptureIsAwake'
BY DEF CaptureIsAwake

LEMMA CapWakes ==
  ASSUME PreviewType, CaptureIsAwake, NEW s \in Session, CapStep(s)
  PROVE  CaptureIsAwake'
<1>1. s # Caller /\ cap \in [Session -> CapState]
  BY PreviewSizes DEF Session, Caller, PreviewType, CapState
<1>2. cap[s].at = "wait" => s \notin sleepers
  BY <1>1
     DEF CapStep, CapClears, CapOuter, CapInner, WaitCaptureFrame, CapCalls, CapReturns
<1>3. s \notin sleepers
  BY <1>1, <1>2 DEF CaptureIsAwake
<1>4. \A r \in Session \ {s} : cap'[r] = cap[r]
  BY <1>1
     DEF CapStep, CapClears, CapOuter, CapInner, WaitCaptureFrame, CapCalls, CapReturns,
         CapGoto
<1>5. sleepers \subseteq Session \cup {Caller}
  BY DEF PreviewType
<1>6. CASE sleepers' \subseteq sleepers
  <2>1. captureQ' \in {captureQ, NoFrame}
    BY DEF CapStep, CapClears, CapOuter, CapInner, WaitCaptureFrame, CapCalls, CapReturns
  <2>2. QED  BY <1>3, <1>4, <1>5, <1>6, <2>1 DEF CaptureIsAwake
<1>7. CASE ~(sleepers' \subseteq sleepers)
  <2>1. /\ WaitCaptureFrame(s) /\ cap[s].at = "fetch" /\ captureQ = NoFrame
    BY <1>7
       DEF CapStep, CapClears, CapOuter, CapInner, WaitCaptureFrame, CapCalls, CapReturns,
           BroadcastCapture, waitVars
  <2>2. /\ CapGoto(s, "wait", NoFrame) /\ sleepers' = sleepers \cup {s}
        /\ captureQ' = NoFrame
    BY <2>1 DEF WaitCaptureFrame, Sleep
  <2>3. cap'[s].at = "wait"
    BY <1>1, <2>2 DEF CapGoto
  <2>4. QED  BY <1>4, <1>5, <2>2, <2>3 DEF CaptureIsAwake
<1>8. QED  BY <1>6, <1>7

LEMMA CaptureWakes ==
  ASSUME PreviewType, ThreadFrames, CaptureIsAwake, [PreviewNext]_previewVars
  PROVE  CaptureIsAwake'
<1>1. CASE \/ StartPreview \/ StopPreview \/ CallerStep
           \/ \E c \in Callback \cup {NoCallback} : SetFrameCallback(c)
  <2>1. sleepers' \subseteq sleepers \cup {Caller}
    BY <1>1
       DEF StartPreview, StopPreview, CallerStep, StopSignals, SignalCapture, JoinCapture,
           JoinPreview, StopClears, ReplaceCallback, SetFrameCallback, Sleep, waitVars
  <2>2. UNCHANGED cap /\ captureQ' \in {captureQ, NoFrame}
    BY <1>1
       DEF StartPreview, StopPreview, CallerStep, StopSignals, JoinCapture, JoinPreview,
           StopClears, ReplaceCallback, SetFrameCallback, threadVars
  <2>3. QED  BY <2>1, <2>2, FewerSleep
<1>2. CASE FrameArrives \/ AddPreviewFrame \/ SpuriousWakeup \/ UNCHANGED previewVars
  <2>1. sleepers' \subseteq sleepers
    BY <1>2 DEF FrameArrives, AddPreviewFrame, SpuriousWakeup, previewVars, waitVars
  <2>2. UNCHANGED <<cap, captureQ>>
    BY <1>2 DEF FrameArrives, AddPreviewFrame, SpuriousWakeup, previewVars, threadVars
  <2>3. QED  BY <2>1, <2>2, FewerSleep
<1>3. CASE BeginPreview
  <2>1. session \in Session /\ cap[session].at = "none"
    BY <1>3 DEF BeginPreview, ThreadFrames
  <2>2. session # Caller /\ cap \in [Session -> CapState]
    BY <2>1, PreviewSizes DEF Session, Caller, PreviewType, CapState
  <2>3. session \notin sleepers
    BY <2>1, <2>2 DEF CaptureIsAwake
  <2>4. UNCHANGED <<sleepers, captureQ>>
    BY <1>3 DEF BeginPreview, waitVars
  <2>5. \A r \in Session \ {session} : cap'[r] = cap[r]
    BY <1>3, <2>2 DEF BeginPreview, CapGoto
  <2>6. sleepers \subseteq Session \cup {Caller}
    BY DEF PreviewType
  <2>7. QED  BY <2>3, <2>4, <2>5, <2>6 DEF CaptureIsAwake
<1>4. CASE AddCaptureFrame
  <2>1. CASE run
    BY <1>4, <2>1 DEF AddCaptureFrame, BroadcastCapture, CaptureIsAwake
  <2>2. CASE ~run
    BY <1>4, <2>2, FewerSleep DEF AddCaptureFrame
  <2>3. QED  BY <2>1, <2>2
<1>5. CASE PrevStep /\ ~BeginPreview /\ ~AddCaptureFrame
  <2>1. sleepers' \subseteq sleepers /\ UNCHANGED <<cap, captureQ>>
    BY <1>5
       DEF PrevStep, StartStream, PrevLoop, WaitPreviewFrame, Draw, PrevSignals,
           PrevCloses, SignalCapture, waitVars
  <2>2. QED  BY <2>1, FewerSleep
<1>6. CASE \E s \in Session : CapStep(s)
  BY <1>6, CapWakes
<1>7. QED  BY <1>1, <1>2, <1>3, <1>4, <1>5, <1>6 DEF PreviewNext

\* NobodySleepsOnFrame, UVCPreview.cpp:462 and 734: while the preview thread or a
\* capture thread sleeps, the queue it takes frames from is empty. A wake-up for a
\* frame is never lost; what may be lost is the one of a stop.
THEOREM NoWakeUpIsLost == PreviewSpec => []NobodySleepsOnFrame
<1>1. NobodySleepsOnFrame <=> PrevIsAwake /\ CaptureIsAwake
  BY DEF NobodySleepsOnFrame, PrevIsAwake, CaptureIsAwake
<1>2. PreviewInit => PrevIsAwake /\ CaptureIsAwake
  BY DEF PreviewInit, PrevIsAwake, CaptureIsAwake
<1>3. BufferInv /\ PrevIsAwake /\ CaptureIsAwake /\ [PreviewNext]_previewVars
        => PrevIsAwake' /\ CaptureIsAwake'
  BY PrevWakes, CaptureWakes DEF BufferInv
<1>4. QED  BY <1>1, <1>2, <1>3, BufferInvariance, PTL DEF PreviewSpec

-----------------------------------------------------------------------------
(***************************************************************************)
(* The order of the frames. A frame passes five stations: the user         *)
(* thread's copy, the preview's queue, the preview thread, the place for   *)
(* the next captured frame, and the capture thread of the session. All     *)
(* steps are one of seven that a frame may make there, and each keeps the  *)
(* order of the stations.                                                  *)
(***************************************************************************)

\* The frame of the session's capture thread
Latest == IF session = 0 THEN NoFrame ELSE cap[session].frame

\* A frame newer than all behind the queue
IsNewer(f) == prev.frame < f /\ captureQ < f /\ Latest < f

\* Each station has an older frame than those before it.
StationsOrdered ==
  /\ \A i, j \in 1 .. Len(previewQ) : i < j => previewQ[i] < previewQ[j]
  /\ \A i \in 1 .. Len(previewQ) :
       /\ previewQ[i] <= current /\ IsNewer(previewQ[i])
       /\ copy # NoFrame => previewQ[i] < copy
  /\ copy # NoFrame => copy <= current /\ IsNewer(copy)
  /\ prev.frame <= current /\ captureQ <= current /\ Latest <= current
  /\ prev.frame # NoFrame => captureQ < prev.frame /\ Latest < prev.frame
  /\ captureQ # NoFrame => Latest < captureQ

\* The places of the preview thread at which the camera streams
Streaming == {"begin", "loop", "fetch", "wait", "draw", "add", "signal", "close"}

\* The camera streams while the preview thread is between start and stop of the
\* streaming, and the queues are empty before.
StreamsInBetween ==
  /\ open => prev.at \in Streaming
  /\ calling => open
  /\ prev.at = "start" \/ (~run /\ caller \in {"idle", "setCallback"})
       => previewQ = <<>> /\ captureQ = NoFrame

OrderInv == BufferInv /\ StreamsInBetween /\ StationsOrdered
-----------------------------------------------------------------------------
(* What may happen at the stations. In all but the last, no frame gets a      *)
(* smaller number.                                                            *)

Numbers == /\ current \in Nat /\ copy \in Nat /\ prev.frame \in Nat
           /\ captureQ \in Nat /\ Latest \in Nat
           /\ previewQ \in Seq(Frame)
           /\ \A i \in 1 .. Len(previewQ) : previewQ[i] \in Nat \ {0}

LEMMA NumbersAreNat == PreviewType => Numbers
<1> SUFFICES ASSUME PreviewType PROVE Numbers
  OBVIOUS
<1>1. FrameOrNone \subseteq Nat /\ current \in Nat
  BY MaxSeqIsNat DEF FrameOrNone, PreviewType, SourceType
<1>2. session # 0 => session \in Session
  BY PreviewSizes DEF PreviewType, Session
<1>3. Latest \in Nat
  BY <1>1, <1>2 DEF Latest, PreviewType, NoFrame
<1>4. \A i \in 1 .. Len(previewQ) : previewQ[i] \in Nat \ {0}
  BY MaxSeqIsNat DEF PreviewType, Frame
<1>5. QED  BY <1>1, <1>3, <1>4 DEF Numbers, PreviewType

\* Frames stay where they are, or leave the preview.
FramesLeave ==
  /\ current' = current /\ previewQ' \in {previewQ, <<>>} /\ copy' \in {copy, NoFrame}
  /\ prev'.frame \in {prev.frame, NoFrame} /\ captureQ' \in {captureQ, NoFrame}
  /\ Latest' \in {Latest, NoFrame}

Behind == <<prev.frame, captureQ, Latest>>

\* A frame comes from the camera.
FrameComes == /\ UNCHANGED <<previewQ, Behind>>
              /\ current' > current /\ copy' \in {current', NoFrame}

FrameIsQueued == /\ copy # NoFrame /\ copy' = NoFrame
                 /\ previewQ' = Append(previewQ, copy)
                 /\ UNCHANGED <<current, Behind>>

FrameIsTaken == /\ previewQ # <<>>
                /\ prev'.frame = Head(previewQ) /\ previewQ' = Tail(previewQ)
                /\ UNCHANGED <<current, copy, captureQ, Latest>>

FrameIsOffered == /\ prev.frame # NoFrame
                  /\ captureQ' = prev.frame /\ prev'.frame = NoFrame
                  /\ UNCHANGED <<current, copy, previewQ, Latest>>

FrameIsCaptured == /\ captureQ # NoFrame
                   /\ Latest' = captureQ /\ captureQ' = NoFrame
                   /\ UNCHANGED <<current, copy, previewQ, prev.frame>>

\* The stations are empty.
Restarts == /\ previewQ' = <<>> /\ copy' = NoFrame
            /\ prev'.frame = NoFrame /\ captureQ' = NoFrame /\ Latest' = NoFrame

StationStep == \/ FramesLeave \/ FrameComes \/ FrameIsQueued \/ FrameIsTaken
               \/ FrameIsOffered \/ FrameIsCaptured \/ Restarts

LEMMA LeavingKeepsOrder ==
  ASSUME Numbers, Numbers', StationsOrdered, FramesLeave \/ FrameComes \/ Restarts
  PROVE  StationsOrdered'
<1>1. CASE FramesLeave
  <2>1. CASE previewQ' = previewQ
    <3> DEFINE NewerNext(f) == prev'.frame < f /\ captureQ' < f /\ Latest' < f
    <3>1. \A f \in Nat : IsNewer(f) /\ f # NoFrame => NewerNext(f)
      BY <1>1 DEF Numbers, FramesLeave, IsNewer, NoFrame
    <3>2. copy' # NoFrame => copy' = copy
      BY <1>1 DEF FramesLeave
    <3>3. \A i \in 1 .. Len(previewQ) : previewQ[i] # NoFrame /\ previewQ[i] \in Nat
      BY DEF Numbers, NoFrame
    <3>4. /\ \A i \in 1 .. Len(previewQ) :
               /\ previewQ[i] <= current /\ NewerNext(previewQ[i])
               /\ copy' # NoFrame => previewQ[i] < copy
          /\ copy' # NoFrame => copy <= current /\ NewerNext(copy)
      <4> HIDE DEF NewerNext
      <4>1. QED  BY <3>1, <3>2, <3>3 DEF Numbers, StationsOrdered
    <3>5. /\ prev'.frame <= current /\ captureQ' <= current /\ Latest' <= current
          /\ prev'.frame # NoFrame => captureQ' < prev'.frame /\ Latest' < prev'.frame
          /\ captureQ' # NoFrame => Latest' < captureQ'
      BY <1>1 DEF Numbers, StationsOrdered, FramesLeave, NoFrame
    <3>6. QED
      BY <1>1, <2>1, <3>2, <3>4, <3>5 DEF StationsOrdered, FramesLeave, IsNewer
  <2>2. CASE previewQ' = <<>>
    BY <1>1, <2>2 DEF Numbers, StationsOrdered, FramesLeave, IsNewer, NoFrame
  <2>3. QED  BY <1>1, <2>1, <2>2 DEF FramesLeave
<1>2. CASE FrameComes
  BY <1>2 DEF Numbers, StationsOrdered, FrameComes, Behind, IsNewer, NoFrame
<1>3. CASE Restarts
  BY <1>3 DEF Numbers, StationsOrdered, Restarts, IsNewer, NoFrame
<1>4. QED  BY <1>1, <1>2, <1>3

LEMMA QueueingKeepsOrder ==
  ASSUME Numbers, Numbers', StationsOrdered, FrameIsQueued
  PROVE  StationsOrdered'
<1>1. Len(previewQ) \in Nat /\ Len(previewQ') = Len(previewQ) + 1
  BY DEF Numbers, FrameIsQueued
<1>2. \A i \in 1 .. Len(previewQ') :
        previewQ'[i] = IF i <= Len(previewQ) THEN previewQ[i] ELSE copy
  BY <1>1 DEF Numbers, FrameIsQueued
<1>3. \A i \in 1 .. Len(previewQ) : previewQ[i] \in Int /\ i \in 1 .. Len(previewQ')
  BY <1>1 DEF Numbers
<1>4. \A i, j \in 1 .. Len(previewQ') : i < j => previewQ'[i] < previewQ'[j]
  <2> SUFFICES ASSUME NEW i \in 1 .. Len(previewQ'), NEW j \in 1 .. Len(previewQ'), i < j
               PROVE  previewQ'[i] < previewQ'[j]
    OBVIOUS
  <2>1. i \in 1 .. Len(previewQ) /\ previewQ'[i] = previewQ[i]
    BY <1>1, <1>2
  <2>2. CASE j <= Len(previewQ)
    BY <1>1, <1>2, <2>1, <2>2 DEF StationsOrdered
  <2>3. CASE j > Len(previewQ)
    BY <1>1, <1>2, <2>1, <2>3 DEF StationsOrdered, FrameIsQueued
  <2>4. QED  BY <1>1, <2>2, <2>3
<1>5. \A i \in 1 .. Len(previewQ') : previewQ'[i] <= current /\ IsNewer(previewQ'[i])
  BY <1>1, <1>2 DEF StationsOrdered, FrameIsQueued
<1>6. UNCHANGED <<current, captureQ, Latest, prev.frame>> /\ copy' = NoFrame
  BY DEF FrameIsQueued, Behind
<1>7. QED  BY <1>4, <1>5, <1>6 DEF StationsOrdered, IsNewer

LEMMA TakingKeepsOrder ==
  ASSUME Numbers, Numbers', StationsOrdered, FrameIsTaken
  PROVE  StationsOrdered'
<1>1. Len(previewQ) \in Nat \ {0} /\ Len(previewQ') = Len(previewQ) - 1
  BY DEF Numbers, FrameIsTaken
<1>2. \A i \in 1 .. Len(previewQ') : previewQ'[i] = previewQ[i + 1]
  BY <1>1 DEF Numbers, FrameIsTaken
<1>3. 1 \in 1 .. Len(previewQ) /\ prev'.frame = previewQ[1] /\ previewQ[1] \in Nat \ {0}
  BY <1>1 DEF Numbers, FrameIsTaken
<1>4. \A i \in 1 .. Len(previewQ') :
        i + 1 \in 1 .. Len(previewQ) /\ previewQ[1] < previewQ[i + 1]
  BY <1>1, <1>3 DEF StationsOrdered
<1>5. \A i, j \in 1 .. Len(previewQ') : i < j => previewQ'[i] < previewQ'[j]
  <2> SUFFICES ASSUME NEW i \in 1 .. Len(previewQ'), NEW j \in 1 .. Len(previewQ'), i < j
               PROVE  previewQ'[i] < previewQ'[j]
    OBVIOUS
  <2>1. i + 1 \in 1 .. Len(previewQ) /\ j + 1 \in 1 .. Len(previewQ) /\ i + 1 < j + 1
    BY <1>1
  <2>2. previewQ[i + 1] < previewQ[j + 1]
    BY <2>1 DEF StationsOrdered
  <2>3. QED  BY <1>2, <2>2
<1>6. UNCHANGED <<current, copy, captureQ, Latest>>
  BY DEF FrameIsTaken
<1>7. \A i \in 1 .. Len(previewQ') :
        /\ previewQ'[i] <= current' /\ (copy' # NoFrame => previewQ'[i] < copy')
        /\ prev'.frame < previewQ'[i] /\ captureQ' < previewQ'[i] /\ Latest' < previewQ'[i]
  BY <1>2, <1>3, <1>4, <1>6 DEF StationsOrdered, IsNewer
<1>8. copy' # NoFrame => /\ copy' <= current' /\ prev'.frame < copy'
                         /\ captureQ' < copy' /\ Latest' < copy'
  BY <1>3, <1>6 DEF StationsOrdered, IsNewer
<1>9. /\ prev'.frame <= current' /\ captureQ' <= current' /\ Latest' <= current'
      /\ captureQ' < prev'.frame /\ Latest' < prev'.frame
      /\ captureQ' # NoFrame => Latest' < captureQ'
  BY <1>3, <1>6 DEF StationsOrdered, IsNewer
<1>10. QED  BY <1>5, <1>7, <1>8, <1>9 DEF StationsOrdered, IsNewer

LEMMA PassingKeepsOrder ==
  ASSUME Numbers, Numbers', StationsOrdered, FrameIsOffered \/ FrameIsCaptured
  PROVE  StationsOrdered'
<1>1. CASE FrameIsOffered
  BY <1>1 DEF Numbers, StationsOrdered, FrameIsOffered, IsNewer, NoFrame
<1>2. CASE FrameIsCaptured
  BY <1>2 DEF Numbers, StationsOrdered, FrameIsCaptured, IsNewer, NoFrame
<1>3. QED  BY <1>1, <1>2

LEMMA StationStepsKeepOrder ==
  ASSUME Numbers, Numbers', StationsOrdered, StationStep
  PROVE  StationsOrdered'
BY LeavingKeepsOrder, QueueingKeepsOrder, TakingKeepsOrder, PassingKeepsOrder DEF StationStep
-----------------------------------------------------------------------------
(* What the threads do *)

LEMMA LatestStays == ASSUME UNCHANGED <<session, cap>> PROVE Latest' = Latest
BY DEF Latest

\* Before the session's capture thread begins it has no frame.
LEMMA LatestIsNone ==
  ASSUME ThreadFrames, NEW r \in Session, cap[r].at = "none"
  PROVE  cap[r].frame = NoFrame
BY DEF ThreadFrames

LEMMA CallerStations ==
  ASSUME BufferInv, StreamsInBetween, StartPreview \/ StopPreview \/ CallerStep
         \/ \E c \in Callback \cup {NoCallback} : SetFrameCallback(c)
  PROVE  StreamsInBetween' /\ StationStep
<1>1. UNCHANGED <<sourceVars, copy, cap>>
  BY DEF StartPreview, StopPreview, CallerStep, StopSignals, JoinCapture, JoinPreview,
         StopClears, ReplaceCallback, SetFrameCallback, threadVars
<1>2. CASE StartPreview
  <2>1. /\ UNCHANGED <<previewQ, captureQ>> /\ session' = session + 1 /\ run' = TRUE
        /\ prev' = [at |-> "start", frame |-> NoFrame] /\ ~run /\ caller = "idle"
    BY <1>2 DEF StartPreview, PrevGoto
  <2>2. session' \in Session /\ session' > session /\ session' # 0
    BY <1>2, <2>1, PreviewSizes DEF StartPreview, Session, BufferInv, PreviewType
  <2>3. cap[session'].frame = NoFrame
    BY <2>2, LatestIsNone DEF BufferInv, ThreadFrames
  <2>4. Latest' = NoFrame
    BY <1>1, <2>2, <2>3 DEF Latest
  <2>5. prev.at = "none" /\ ~open /\ ~calling /\ previewQ = <<>> /\ captureQ = NoFrame
    BY <2>1 DEF StreamsInBetween, Streaming, BufferInv, ThreadFrames
  <2>6. StreamsInBetween'
    BY <1>1, <2>1, <2>5 DEF StreamsInBetween, Streaming, sourceVars
  <2>7. FramesLeave
    BY <1>1, <2>1, <2>4 DEF FramesLeave, sourceVars
  <2>8. QED  BY <2>6, <2>7 DEF StationStep
<1>3. CASE JoinPreview
  <2>1. /\ UNCHANGED <<previewQ, captureQ, session, run>> /\ caller' = "clear"
        /\ prev' = [at |-> "none", frame |-> NoFrame] /\ prev.at = "ended"
    BY <1>3 DEF JoinPreview, PrevGoto, flagVars
  <2>2. Latest' = Latest
    BY <1>1, <2>1, LatestStays
  <2>3. StreamsInBetween'
    BY <1>1, <2>1 DEF StreamsInBetween, Streaming, sourceVars
  <2>4. FramesLeave
    BY <1>1, <2>1, <2>2 DEF FramesLeave, sourceVars
  <2>5. QED  BY <2>3, <2>4 DEF StationStep
<1>4. CASE StopClears
  <2>1. /\ UNCHANGED <<session, run, prev>> /\ previewQ' = <<>> /\ captureQ' = NoFrame
    BY <1>4 DEF StopClears, flagVars, threadVars
  <2>2. Latest' = Latest
    BY <1>1, <2>1, LatestStays
  <2>3. StreamsInBetween'
    BY <1>1, <2>1 DEF StreamsInBetween, Streaming, sourceVars
  <2>4. FramesLeave
    BY <1>1, <2>1, <2>2 DEF FramesLeave, sourceVars
  <2>5. QED  BY <2>3, <2>4 DEF StationStep
<1>5. CASE ~StartPreview /\ ~JoinPreview /\ ~StopClears
  <2>1. UNCHANGED <<previewQ, captureQ, prev, session>>
    BY <1>5
       DEF StopPreview, CallerStep, StopSignals, JoinCapture, ReplaceCallback,
           SetFrameCallback, threadVars
  <2>2. ~run' /\ caller' \in {"idle", "setCallback"}
          => ~run /\ caller \in {"idle", "setCallback"}
    BY <1>5
       DEF StopPreview, CallerStep, StopSignals, JoinCapture, ReplaceCallback,
           SetFrameCallback, flagVars
  <2>3. Latest' = Latest
    BY <1>1, <2>1, LatestStays
  <2>4. StreamsInBetween'
    BY <1>1, <2>1, <2>2 DEF StreamsInBetween, Streaming, sourceVars
  <2>5. FramesLeave
    BY <1>1, <2>1, <2>3 DEF FramesLeave, sourceVars
  <2>6. QED  BY <2>4, <2>5 DEF StationStep
<1>6. QED  BY <1>2, <1>3, <1>4, <1>5

LEMMA UserStations ==
  ASSUME BufferInv, StreamsInBetween, FrameArrives \/ AddPreviewFrame
  PROVE  StreamsInBetween' /\ StationStep
<1>1. UNCHANGED <<captureQ, run, caller, session, prev, cap, open>>
  BY DEF FrameArrives, AddPreviewFrame, CallBegins, CallEnds, flagVars, callerVars, threadVars
<1>2. Latest' = Latest
  BY <1>1, LatestStays
<1>3. CASE FrameArrives
  <2>1. current \in Nat /\ open
    BY <1>3 DEF FrameArrives, CallBegins, BufferInv, PreviewType, SourceType
  <2>2. current' > current
    BY <1>3, <2>1 DEF FrameArrives, CallBegins
  <2>3. FrameComes
    BY <1>1, <1>2, <1>3, <2>2 DEF FrameArrives, FrameComes, Behind
  <2>4. StreamsInBetween'
    BY <1>1, <1>3, <2>1 DEF FrameArrives, StreamsInBetween, Streaming
  <2>5. QED  BY <2>3, <2>4 DEF StationStep
<1>4. CASE AddPreviewFrame
  <2>1. open /\ ~calling' /\ current' = current /\ copy' = NoFrame
    BY <1>4 DEF AddPreviewFrame, CallEnds, StreamsInBetween, Streaming
  <2>2. prev.at # "start" /\ prev.at # "none"
    BY <2>1 DEF StreamsInBetween, Streaming
  <2>3. ~(~run /\ caller \in {"idle", "setCallback"})
    BY <2>2 DEF BufferInv, ThreadFrames
  <2>4. StreamsInBetween'
    BY <1>1, <2>1, <2>2, <2>3 DEF StreamsInBetween, Streaming
  <2>5. FrameIsQueued \/ FramesLeave
    BY <1>1, <1>2, <1>4, <2>1 DEF AddPreviewFrame, FrameIsQueued, FramesLeave, Behind
  <2>6. QED  BY <2>4, <2>5 DEF StationStep
<1>5. QED  BY <1>3, <1>4

LEMMA PrevStations ==
  ASSUME BufferInv, StreamsInBetween, PrevStep
  PROVE  StreamsInBetween' /\ StationStep
<1>1. UNCHANGED <<run, caller, session, copy>>
  BY DEF PrevStep, StartStream, BeginPreview, PrevLoop, WaitPreviewFrame, Draw,
         AddCaptureFrame, PrevSignals, PrevCloses, flagVars, callerVars
<1>2. prev.at \in Streaming \cup {"start"}
  BY DEF PrevStep, StartStream, BeginPreview, PrevLoop, WaitPreviewFrame, Draw,
         AddCaptureFrame, PrevSignals, PrevCloses, Streaming
<1>3. ~(~run /\ caller \in {"idle", "setCallback"})
  BY <1>2 DEF BufferInv, ThreadFrames, Streaming
<1>4. CASE StartStream
  <2>1. prev.at = "start" /\ UNCHANGED <<previewQ, captureQ, cap>>
    BY <1>4 DEF StartStream
  <2>2. previewQ = <<>> /\ captureQ = NoFrame /\ ~open /\ ~calling
    BY <2>1 DEF StreamsInBetween, Streaming
  <2>3. copy = NoFrame
    BY <2>2 DEF BufferInv, ThreadFrames
  <2>4. session \in Session /\ cap[session].at = "none"
    BY <2>1 DEF BufferInv, ThreadFrames
  <2>5. cap[session].frame = NoFrame
    BY <2>4, LatestIsNone DEF BufferInv
  <2>6. Latest' = NoFrame
    BY <1>1, <2>1, <2>5 DEF Latest
  <2>7. /\ prev'.frame = NoFrame
        /\ \/ prev'.at = "ended" /\ UNCHANGED <<open, calling>>
           \/ prev'.at = "begin" /\ UNCHANGED calling
    BY <1>4 DEF StartStream, PrevGoto, Open, sourceVars
  <2>8. Restarts
    BY <1>1, <2>1, <2>2, <2>3, <2>6, <2>7 DEF Restarts
  <2>9. StreamsInBetween'
    BY <1>1, <1>3, <2>2, <2>7 DEF StreamsInBetween, Streaming
  <2>10. QED  BY <2>8, <2>9 DEF StationStep
<1>5. CASE PrevCloses
  <2>1. /\ prev' = [at |-> "ended", frame |-> NoFrame] /\ ~open' /\ ~calling'
        /\ UNCHANGED <<current, previewQ, captureQ, cap>>
    BY <1>5 DEF PrevCloses, PrevGoto, Close
  <2>2. Latest' = Latest
    BY <1>1, <2>1, LatestStays
  <2>3. FramesLeave
    BY <1>1, <2>1, <2>2 DEF FramesLeave
  <2>4. StreamsInBetween'
    BY <1>1, <1>3, <2>1 DEF StreamsInBetween, Streaming
  <2>5. QED  BY <2>3, <2>4 DEF StationStep
<1>6. CASE ~StartStream /\ ~PrevCloses
  <2>1. UNCHANGED sourceVars /\ prev'.at \in Streaming
    BY <1>6
       DEF PrevStep, BeginPreview, PrevLoop, WaitPreviewFrame, Draw, AddCaptureFrame,
           PrevSignals, PrevGoto, Streaming
  <2>2. StreamsInBetween'
    BY <1>1, <1>3, <2>1 DEF StreamsInBetween, sourceVars, Streaming
  <2>3. CASE BeginPreview
    <3>1. session \in Session /\ cap'[session].frame = NoFrame
      BY <2>3, CapGoes, NoFrameIsNone
         DEF BeginPreview, BufferInv, ThreadFrames, CapAt
    <3>2. Latest' = NoFrame
      BY <1>1, <3>1 DEF Latest
    <3>3. /\ previewQ' = <<>> /\ prev'.frame = NoFrame /\ UNCHANGED captureQ
      BY <2>3 DEF BeginPreview, PrevGoto
    <3>4. FramesLeave
      BY <1>1, <2>1, <3>2, <3>3 DEF FramesLeave, sourceVars
    <3>5. QED  BY <2>2, <3>4 DEF StationStep
  <2>4. CASE ~BeginPreview
    <3>1. UNCHANGED cap
      BY <1>6, <2>4
         DEF PrevStep, PrevLoop, WaitPreviewFrame, Draw, AddCaptureFrame, PrevSignals
    <3>2. Latest' = Latest
      BY <1>1, <3>1, LatestStays
    <3>3. CASE WaitPreviewFrame
      BY <1>1, <2>1, <2>2, <3>2, <3>3
         DEF WaitPreviewFrame, StationStep, FramesLeave, FrameIsTaken, sourceVars, PrevGoto
    <3>4. CASE AddCaptureFrame
      <4>1. prev.frame # NoFrame
        BY <3>4 DEF AddCaptureFrame, BufferInv, ThreadFrames
      <4>2. QED
        BY <1>1, <2>1, <2>2, <3>2, <3>4, <4>1
           DEF AddCaptureFrame, StationStep, FramesLeave, FrameIsOffered, sourceVars, PrevGoto
    <3>5. CASE PrevLoop \/ Draw \/ PrevSignals
      <4>1. /\ prev'.frame \in {prev.frame, NoFrame} /\ UNCHANGED <<previewQ, captureQ>>
        BY <3>5 DEF PrevLoop, Draw, PrevSignals, PrevGoto
      <4>2. FramesLeave
        BY <1>1, <2>1, <3>2, <4>1 DEF FramesLeave, sourceVars
      <4>3. QED  BY <2>2, <4>2 DEF StationStep
    <3>6. QED  BY <1>6, <2>4, <3>3, <3>4, <3>5 DEF PrevStep
  <2>5. QED  BY <2>2, <2>3, <2>4
<1>7. QED  BY <1>4, <1>5, <1>6

LEMMA CapStations ==
  ASSUME BufferInv, StreamsInBetween, \E s \in Session : CapStep(s)
  PROVE  StreamsInBetween' /\ StationStep
<1>1. PICK s \in Session : CapStep(s)
  OBVIOUS
<1>2. UNCHANGED <<sourceVars, run, caller, session, copy, prev, previewQ>>
  BY <1>1
     DEF CapStep, CapClears, CapOuter, CapInner, WaitCaptureFrame, CapCalls, CapReturns,
         flagVars, callerVars
<1>3. captureQ' \in {captureQ, NoFrame}
  BY <1>1
     DEF CapStep, CapClears, CapOuter, CapInner, WaitCaptureFrame, CapCalls, CapReturns
<1>4. StreamsInBetween'
  BY <1>2, <1>3 DEF StreamsInBetween, Streaming, sourceVars
<1>5. /\ captureQ \in FrameOrNone /\ NoFrame \in FrameOrNone
      /\ cap \in [Session -> CapState]
  BY NoFrameIsNone DEF BufferInv, PreviewType, CapState
<1>6. PICK f \in FrameOrNone :
        /\ cap'[s].frame = f /\ \A r \in Session \ {s} : cap'[r] = cap[r]
        /\ \/ f \in {cap[s].frame, NoFrame}
           \/ captureQ # NoFrame /\ f = captureQ /\ captureQ' = NoFrame
  <2>1. CASE cap' = [cap EXCEPT ![s].at = "java", ![s].cb = cb]
    BY <1>5, <2>1 DEF CapState
  <2>2. CASE \E at \in CapAt : CapGoto(s, at, NoFrame)
    BY <1>5, <2>2, CapGoes DEF BufferInv
  <2>3. CASE /\ captureQ # NoFrame /\ captureQ' = NoFrame /\ CapGoto(s, "got", captureQ)
    BY <1>5, <2>3, CapGoes DEF BufferInv, CapAt
  <2>4. QED
    BY <1>1, <2>1, <2>2, <2>3
       DEF CapStep, CapClears, CapOuter, CapInner, WaitCaptureFrame, CapCalls, CapReturns, CapAt
<1>7. CASE s # session
  <2>1. session # 0 => session \in Session \ {s}
    BY <1>7, PreviewSizes DEF Session, BufferInv, PreviewType
  <2>2. Latest' = Latest
    BY <1>2, <1>6, <2>1 DEF Latest
  <2>3. FramesLeave
    BY <1>2, <1>3, <2>2 DEF FramesLeave, sourceVars
  <2>4. QED  BY <1>4, <2>3 DEF StationStep
<1>8. CASE s = session
  <2>1. session # 0
    BY <1>8 DEF Session
  <2>2. Latest = cap[s].frame /\ Latest' = f
    BY <1>2, <1>6, <1>8, <2>1 DEF Latest
  <2>3. CASE f \in {cap[s].frame, NoFrame}
    BY <1>2, <1>3, <1>4, <2>2, <2>3 DEF StationStep, FramesLeave, sourceVars
  <2>4. CASE captureQ # NoFrame /\ f = captureQ /\ captureQ' = NoFrame
    BY <1>2, <1>4, <2>2, <2>4 DEF StationStep, FrameIsCaptured, sourceVars
  <2>5. QED  BY <1>6, <2>3, <2>4
<1>9. QED  BY <1>7, <1>8
-----------------------------------------------------------------------------
LEMMA StepsMoveFrames ==
  ASSUME BufferInv, StreamsInBetween, [PreviewNext]_previewVars
  PROVE  StreamsInBetween' /\ StationStep
<1>1. CASE SpuriousWakeup \/ UNCHANGED previewVars
  <2>1. UNCHANGED <<previewQ, captureQ, copy, prev, cap, sourceVars, session, caller, run>>
    BY <1>1 DEF SpuriousWakeup, previewVars, threadVars, callerVars, flagVars
  <2>2. Latest' = Latest
    BY <2>1, LatestStays
  <2>3. StreamsInBetween'
    BY <2>1 DEF StreamsInBetween, Streaming, sourceVars
  <2>4. FramesLeave
    BY <2>1, <2>2 DEF FramesLeave, sourceVars
  <2>5. QED  BY <2>3, <2>4 DEF StationStep
<1>2. QED
  BY <1>1, CallerStations, UserStations, PrevStations, CapStations DEF PreviewNext


\* Frames go through the preview in the order in which they come from the camera,
\* whatever the threads do and however often the preview is stopped and started.
THEOREM FramesStayInOrder == PreviewSpec => []FramesInOrder
<1>1. PreviewInit => StreamsInBetween /\ StationsOrdered
  <2> SUFFICES ASSUME PreviewInit PROVE StreamsInBetween /\ StationsOrdered
    OBVIOUS
  <2>1. StreamsInBetween
    BY DEF PreviewInit, SourceInit, StreamsInBetween, Streaming
  <2>2. /\ previewQ = <<>> /\ copy = NoFrame /\ prev.frame = NoFrame
        /\ captureQ = NoFrame /\ Latest = NoFrame /\ current = 0
    BY DEF PreviewInit, SourceInit, Latest
  <2>3. QED  BY <2>1, <2>2 DEF StationsOrdered, NoFrame
<1>2. /\ BufferInv /\ BufferInv' /\ StreamsInBetween /\ StationsOrdered
      /\ [PreviewNext]_previewVars
      => StreamsInBetween' /\ StationsOrdered'
  <2> SUFFICES ASSUME BufferInv, BufferInv', StreamsInBetween, StationsOrdered,
                      [PreviewNext]_previewVars
               PROVE  StreamsInBetween' /\ StationsOrdered'
    OBVIOUS
  <2>1. Numbers
    BY NumbersAreNat DEF BufferInv
  <2>2. PreviewType' => Numbers'
    BY NumbersAreNat, PTL
  <2>3. QED
    BY <2>1, <2>2, StepsMoveFrames, StationStepsKeepOrder DEF BufferInv
<1>3. BufferInv /\ StationsOrdered => FramesInOrder
  <2> SUFFICES ASSUME BufferInv, StationsOrdered PROVE FramesInOrder
    OBVIOUS
  <2>1. FramesInOrder <=>
          /\ \A i, j \in 1 .. Len(previewQ) : i < j => previewQ[i] < previewQ[j]
          /\ \A i \in 1 .. Len(previewQ) :
               /\ previewQ[i] <= current /\ (copy # NoFrame => previewQ[i] < copy)
               /\ prev.frame < previewQ[i] /\ captureQ < previewQ[i]
          /\ prev.frame # NoFrame => captureQ < prev.frame /\ Latest < prev.frame
          /\ captureQ # NoFrame => Latest < captureQ
    BY DEF FramesInOrder, Latest
  <2>2. QED  BY <2>1 DEF StationsOrdered, IsNewer
<1>4. QED  BY <1>1, <1>2, <1>3, BufferInvariance, PTL DEF PreviewSpec
=============================================================================
