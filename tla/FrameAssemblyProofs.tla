------------------------ MODULE FrameAssemblyProofs ------------------------
(***************************************************************************)
(* Proofs about FrameAssembly, for frames of any number of packets and     *)
(* losses of any length shorter than a frame: AsmInv is inductive, so no   *)
(* image mixes two frames, the images advance, and one lacks a packet only *)
(* if a packet of its frame was lost.                                      *)
(***************************************************************************)
EXTENDS FrameAssembly, TLAPS

LEMMA AsmStarts == AsmInit => AsmInv
<1> SUFFICES ASSUME AsmInit PROVE AsmInv
  OBVIOUS
<1> USE PartsArePositive, FrameFits, NoWholeFrameLost, MaxFrameIsNat DEF AsmInit
<1>1. AsmType
  BY DEF AsmType, Packet
<1>2. OneFramePerImage /\ BufferIsOfLast
  BY DEF OneFramePerImage, BufferIsOfLast, NoPkt
<1>3. PresentedIsOlder /\ WholeSoFar
  BY DEF PresentedIsOlder, WholeSoFar, Whole, NoPkt
<1>4. QED  BY <1>1, <1>2, <1>3 DEF AsmInv

LEMMA FidAlternates == \A f \in Nat : FidOf(f + 1) # FidOf(f)
BY DEF FidOf

\* The frames of one parity that the camera may be at after fewer lost packets
\* than a frame has are one.
LEMMA FidTellsFrames ==
  ASSUME AsmInv, pkt = NoPkt, got # 0, fid = FidOf(frame)
  PROVE  \A p \in outbuf : p[1] = frame
<1>1. PICK q \in outbuf : CameraIsAfter(q, lost + 1)
  BY DEF AsmInv, BufferIsOfLast
<1>2. q[1] \in Nat /\ frame \in Nat /\ FidOf(q[1]) = FidOf(frame)
  BY <1>1 DEF AsmInv, AsmType, BufferIsOfLast, Packet
<1>3. frame = q[1] \/ frame = q[1] + 1
  BY <1>1 DEF CameraIsAfter
<1>4. frame = q[1]
  BY <1>2, <1>3, FidAlternates
<1>5. QED  BY <1>1, <1>4 DEF AsmInv, OneFramePerImage

LEMMA CameraMoves ==
  ASSUME AsmType, frame <= MaxFrame, CameraAdvances
  PROVE  /\ frame' \in 1 .. MaxFrame + 1 /\ part' \in 1 .. Parts
         /\ \/ frame' = frame /\ part' = part + 1
            \/ frame' = frame + 1 /\ part = Parts /\ part' = 1
BY PartsArePositive, MaxFrameIsNat DEF AsmType, CameraAdvances

\* What the header of a packet of the frame does to the buffers: they stay, and
\* then what is in the buffer is of that frame, or the buffer is presented.
LEMMA HeaderSwaps ==
  ASSUME AsmInv, pkt = NoPkt, Header(frame)
  PROVE  /\ fid' = FidOf(frame)
         /\ \/ /\ UNCHANGED <<got, outbuf, seq, holdbuf, heldSeq>>
               /\ \A p \in outbuf : p[1] = frame
            \/ /\ SwapBuffers(outbuf)
               /\ outbuf # {}
               /\ \A p \in outbuf : p[1] # frame /\ p[1] < frame
<1>1. CASE fid # FidOf(frame) /\ got # 0
  <2>1. SwapBuffers(outbuf) /\ fid' = FidOf(frame) /\ outbuf # {}
    BY <1>1 DEF Header, AsmInv, BufferIsOfLast
  <2>2. PICK q \in outbuf : CameraIsAfter(q, lost + 1)
    BY <2>1 DEF AsmInv, BufferIsOfLast
  <2>3. q[1] < frame
    BY <1>1, <2>2 DEF CameraIsAfter, AsmInv, AsmType, BufferIsOfLast, Packet
  <2>4. QED  BY <2>1, <2>2, <2>3 DEF AsmInv, AsmType, OneFramePerImage, Packet
<1>2. CASE fid = FidOf(frame) /\ got # 0
  BY <1>2, FidTellsFrames DEF Header
<1>3. CASE got = 0
  BY <1>3 DEF Header, AsmInv, BufferIsOfLast
<1>4. QED  BY <1>1, <1>2, <1>3

LEMMA HeaderOnlyKeeps == ASSUME AsmInv, HeaderOnly PROVE AsmInv'
<1> USE PartsArePositive, FrameFits, NoWholeFrameLost, MaxFrameIsNat
<1>1. pkt = NoPkt /\ pkt' = NoPkt /\ UNCHANGED <<frame, part, lost, hurt, seenSeq, image>>
  BY DEF HeaderOnly, camVars
<1>2. fid' = FidOf(frame) /\ fid' \in {0, 1}
  BY HeaderSwaps DEF HeaderOnly, FidOf, AsmInv, AsmType
<1>3. CASE /\ UNCHANGED <<got, outbuf, seq, holdbuf, heldSeq>>
           /\ \A p \in outbuf : p[1] = frame
  <2>1. AsmType'  BY <1>1, <1>2, <1>3 DEF AsmInv, AsmType
  <2>2. OneFramePerImage'  BY <1>1, <1>3 DEF AsmInv, OneFramePerImage
  <2>3. BufferIsOfLast'
    BY <1>1, <1>2, <1>3 DEF AsmInv, BufferIsOfLast, CameraIsAfter
  <2>4. PresentedIsOlder'  BY <1>1, <1>3 DEF AsmInv, PresentedIsOlder
  <2>5. WholeSoFar'  BY <1>1, <1>3 DEF AsmInv, WholeSoFar, Whole
  <2>6. QED  BY <2>1, <2>2, <2>3, <2>4, <2>5 DEF AsmInv
<1>4. CASE /\ SwapBuffers(outbuf)
           /\ outbuf # {}
           /\ \A p \in outbuf : p[1] # frame /\ p[1] < frame
  <2>1. AsmType'  BY <1>1, <1>2, <1>4 DEF SwapBuffers, AsmInv, AsmType
  <2>2. OneFramePerImage'  BY <1>1, <1>4 DEF SwapBuffers, AsmInv, OneFramePerImage
  <2>3. BufferIsOfLast'
    BY <1>1, <1>4 DEF SwapBuffers, AsmInv, AsmType, BufferIsOfLast, CameraIsAfter
  <2>4. PresentedIsOlder'
    BY <1>1, <1>4 DEF SwapBuffers, AsmInv, AsmType, PresentedIsOlder
  <2>5. WholeSoFar'
    <3>1. frame \notin hurt => part = 1
      <4>1. <<frame, 1>> \notin outbuf
        BY <1>4
      <4>2. frame \notin hurt => 1 \notin 1 .. part - 1
        BY <1>1, <4>1 DEF AsmInv, WholeSoFar
      <4>3. QED  BY <4>2 DEF AsmInv, AsmType
    <3>2. QED  BY <1>1, <1>4, <3>1 DEF SwapBuffers, AsmInv, AsmType, WholeSoFar, Whole
  <2>6. QED  BY <2>1, <2>2, <2>3, <2>4, <2>5 DEF AsmInv
<1>5. QED  BY <1>3, <1>4, <1>1, HeaderSwaps DEF HeaderOnly

LEMMA ReceiveKeeps == ASSUME AsmInv, NEW eof \in BOOLEAN, Receive(eof) PROVE AsmInv'
<1> USE PartsArePositive, FrameFits, NoWholeFrameLost, MaxFrameIsNat
<1> DEFINE new == <<frame, part>>
<1>1. /\ pkt = NoPkt /\ frame <= MaxFrame /\ lost' = 0
      /\ UNCHANGED <<hurt, seenSeq, image>>
      /\ new \in Packet /\ new[1] = frame /\ new[2] = part
      /\ eof => part = Parts
  BY DEF Receive, AsmInv, AsmType, Packet
<1>2. /\ pkt' = [of |-> new, eof |-> eof] /\ pkt' # NoPkt
      /\ pkt'.of = new /\ pkt'.eof = eof
  BY <1>1 DEF Receive, NoPkt, AsmInv, AsmType
<1>3. /\ frame' \in 1 .. MaxFrame + 1 /\ part' \in 1 .. Parts
      /\ \/ frame' = frame /\ part' = part + 1
         \/ frame' = frame + 1 /\ part = Parts /\ part' = 1
  BY CameraMoves DEF Receive, AsmInv
<1>4. fid' = FidOf(frame) /\ fid' \in {0, 1}
  BY HeaderSwaps, <1>1 DEF Receive, FidOf, AsmInv, AsmType
<1>5. CameraIsAfter(pkt.of, 1)' /\ frame \in Nat /\ frame' >= frame
  BY <1>1, <1>2, <1>3 DEF CameraIsAfter, AsmInv, AsmType
<1>6. CASE /\ UNCHANGED <<got, outbuf, seq, holdbuf, heldSeq>>
           /\ \A p \in outbuf : p[1] = frame
  <2>1. AsmType'  BY <1>1, <1>2, <1>3, <1>4, <1>6 DEF AsmInv, AsmType
  <2>2. OneFramePerImage'  BY <1>1, <1>6 DEF AsmInv, OneFramePerImage
  <2>3. part > got
    <3>1. CASE outbuf = {}
      BY <3>1 DEF AsmInv, AsmType, BufferIsOfLast
    <3>2. CASE outbuf # {}
      <4>1. PICK q \in outbuf : q[2] >= got /\ CameraIsAfter(q, lost + 1)
        BY <3>2, <1>1 DEF AsmInv, BufferIsOfLast
      <4>2. part = q[2] + lost + 1
        BY <4>1, <1>6 DEF CameraIsAfter, AsmInv, AsmType, Packet
      <4>3. QED  BY <4>1, <4>2 DEF AsmInv, AsmType, Packet
    <3>3. QED  BY <3>1, <3>2
  <2>4. BufferIsOfLast'
    BY <1>1, <1>2, <1>4, <1>5, <1>6, <2>3 DEF AsmInv, BufferIsOfLast
  <2>5. PresentedIsOlder'
    BY <1>1, <1>2, <1>3, <1>6 DEF AsmInv, AsmType, PresentedIsOlder, Packet
  <2>6. WholeSoFar'
    BY <1>1, <1>2, <1>6 DEF AsmInv, WholeSoFar, Whole
  <2>7. QED  BY <2>1, <2>2, <2>4, <2>5, <2>6 DEF AsmInv
<1>7. CASE /\ SwapBuffers(outbuf)
           /\ outbuf # {}
           /\ \A p \in outbuf : p[1] # frame /\ p[1] < frame
  <2>1. AsmType'  BY <1>1, <1>2, <1>3, <1>4, <1>7 DEF SwapBuffers, AsmInv, AsmType
  <2>2. OneFramePerImage'  BY <1>1, <1>7 DEF SwapBuffers, AsmInv, OneFramePerImage
  <2>3. BufferIsOfLast'
    BY <1>1, <1>2, <1>4, <1>5, <1>7 DEF SwapBuffers, AsmInv, AsmType, BufferIsOfLast
  <2>4. PresentedIsOlder'
    BY <1>1, <1>2, <1>3, <1>7 DEF SwapBuffers, AsmInv, AsmType, PresentedIsOlder, Packet
  <2>5. WholeSoFar'
    <3>1. frame \notin hurt => part = 1
      <4>1. <<frame, 1>> \notin outbuf
        BY <1>7
      <4>2. frame \notin hurt => 1 \notin 1 .. part - 1
        BY <1>1, <4>1 DEF AsmInv, WholeSoFar
      <4>3. QED  BY <4>2 DEF AsmInv, AsmType
    <3>2. QED  BY <1>1, <1>2, <1>7, <3>1 DEF SwapBuffers, AsmInv, AsmType, WholeSoFar, Whole
  <2>6. QED  BY <2>1, <2>2, <2>3, <2>4, <2>5 DEF AsmInv
<1>8. QED  BY <1>6, <1>7, <1>1, HeaderSwaps DEF Receive

LEMMA CopyDataKeeps == ASSUME AsmInv, CopyData PROVE AsmInv'
<1> USE PartsArePositive, FrameFits, NoWholeFrameLost, MaxFrameIsNat
<1> DEFINE p == pkt.of
           buf == outbuf \cup {p}
<1>1. /\ pkt # NoPkt /\ pkt' = NoPkt
      /\ UNCHANGED <<frame, part, lost, hurt, fid, seenSeq, image>>
  BY DEF CopyData, camVars
<1>2. /\ p \in Packet /\ p[1] \in Nat /\ p[2] \in 1 .. Parts
      /\ FidOf(p[1]) = fid /\ lost = 0 /\ CameraIsAfter(p, 1)
      /\ (pkt.eof => p[2] = Parts) /\ p[2] > got
      /\ \A q \in outbuf : q[1] = p[1]
  BY <1>1 DEF AsmInv, AsmType, BufferIsOfLast, Packet
<1>3. \A a \in holdbuf \cup image : a[1] < p[1] /\ a[1] < frame
  BY <1>1 DEF AsmInv, PresentedIsOlder
<1>4. p[1] \notin hurt => \A n \in 1 .. p[2] : <<p[1], n>> \in buf
  <2>1. p = <<p[1], p[2]>>
    BY <1>2 DEF Packet
  <2>2. p[1] \notin hurt => \A n \in 1 .. p[2] - 1 : <<p[1], n>> \in outbuf
    BY <1>1 DEF AsmInv, WholeSoFar
  <2>3. QED  BY <1>2, <2>1, <2>2
<1>5. CASE pkt.eof \/ got + 1 = Capacity
  <2>1. SwapBuffers(buf)
    BY <1>5 DEF CopyData
  <2>2. p[2] = Parts /\ frame = p[1] + 1 /\ part = 1
    BY <1>2, <1>5 DEF CameraIsAfter, AsmInv, AsmType
  <2>3. AsmType'
    BY <1>1, <1>2, <2>1 DEF SwapBuffers, AsmInv, AsmType
  <2>4. OneFramePerImage'
    BY <1>1, <1>2, <2>1 DEF SwapBuffers, AsmInv, OneFramePerImage
  <2>5. BufferIsOfLast'
    BY <1>1, <2>1 DEF SwapBuffers, BufferIsOfLast
  <2>6. PresentedIsOlder'
    BY <1>1, <1>2, <1>3, <2>1, <2>2 DEF SwapBuffers, AsmInv, AsmType, PresentedIsOlder
  <2>7. WholeSoFar'
    BY <1>1, <1>2, <1>4, <2>1, <2>2 DEF SwapBuffers, AsmInv, WholeSoFar, Whole
  <2>8. QED  BY <2>3, <2>4, <2>5, <2>6, <2>7 DEF AsmInv
<1>6. CASE ~pkt.eof /\ got + 1 # Capacity
  <2>1. outbuf' = buf /\ got' = got + 1 /\ UNCHANGED <<seq, holdbuf, heldSeq>>
    BY <1>6 DEF CopyData
  <2>2. AsmType'
    BY <1>1, <1>2, <1>6, <2>1 DEF AsmInv, AsmType, BufferIsOfLast
  <2>3. OneFramePerImage'
    BY <1>1, <1>2, <2>1 DEF AsmInv, OneFramePerImage
  <2>4. BufferIsOfLast'
    <3>1. got' # Capacity /\ got' # 0 /\ outbuf' # {}
      BY <1>6, <2>1 DEF AsmInv, AsmType
    <3>2. \A q \in outbuf' : FidOf(q[1]) = fid'
      BY <1>1, <1>2, <2>1
    <3>3. p \in outbuf' /\ p[2] >= got' /\ CameraIsAfter(p, lost + 1)
      BY <1>2, <2>1 DEF AsmInv, AsmType
    <3>4. \E q \in outbuf' : q[2] >= got' /\ CameraIsAfter(q, lost + 1)'
      BY <1>1, <3>3 DEF CameraIsAfter
    <3>5. QED  BY <1>1, <3>1, <3>2, <3>4 DEF BufferIsOfLast
  <2>5. PresentedIsOlder'
    BY <1>1, <1>2, <1>3, <2>1 DEF AsmInv, PresentedIsOlder
  <2>6. WholeSoFar'
    <3>1. frame \notin hurt => \A n \in 1 .. part - 1 : <<frame, n>> \in buf
      BY <1>2, <1>4 DEF CameraIsAfter, AsmInv, AsmType
    <3>2. p[1] # frame => p[2] = Parts
      BY <1>2 DEF CameraIsAfter, AsmInv, AsmType
    <3>3. \A a \in buf : a[1] # frame /\ a[1] \notin hurt =>
            \A n \in 1 .. Parts : <<a[1], n>> \in buf
      BY <1>2, <1>4, <3>2
    <3>4. QED  BY <1>1, <2>1, <3>1, <3>3 DEF AsmInv, WholeSoFar, Whole
  <2>7. QED  BY <2>2, <2>3, <2>4, <2>5, <2>6 DEF AsmInv
<1>7. QED  BY <1>5, <1>6 DEF AsmInv, AsmType

LEMMA LoseKeeps == ASSUME AsmInv, Lose PROVE AsmInv'
<1> USE PartsArePositive, FrameFits, NoWholeFrameLost, MaxFrameIsNat
<1>1. /\ pkt = NoPkt /\ frame <= MaxFrame /\ lost < MaxLost
      /\ lost' = lost + 1 /\ hurt' = hurt \cup {frame}
      /\ UNCHANGED <<pkt, fid, got, outbuf, seq, holdbuf, heldSeq, seenSeq, image>>
  BY DEF Lose
<1>2. /\ frame' \in 1 .. MaxFrame + 1 /\ part' \in 1 .. Parts
      /\ \/ frame' = frame /\ part' = part + 1
         \/ frame' = frame + 1 /\ part = Parts /\ part' = 1
  BY CameraMoves DEF Lose, AsmInv
<1>3. AsmType'  BY <1>1, <1>2 DEF AsmInv, AsmType
<1>4. OneFramePerImage'  BY <1>1 DEF AsmInv, OneFramePerImage
<1>5. BufferIsOfLast'
  <2>1. \A q \in Packet : CameraIsAfter(q, lost + 1) => CameraIsAfter(q, lost + 1)'
    BY <1>1, <1>2 DEF CameraIsAfter, AsmInv, AsmType, Packet
  <2>2. QED  BY <1>1, <2>1 DEF AsmInv, AsmType, BufferIsOfLast
<1>6. PresentedIsOlder'
  BY <1>1, <1>2 DEF AsmInv, AsmType, PresentedIsOlder, Packet
<1>7. WholeSoFar'
  <2>1. frame' \notin hurt' => part' = 1
    BY <1>1, <1>2
  <2>2. \A a \in holdbuf \cup image \cup outbuf : a[1] \notin hurt' => a[1] \notin hurt /\ a[1] # frame
    BY <1>1
  <2>3. QED  BY <1>1, <1>2, <2>1, <2>2 DEF AsmInv, WholeSoFar, Whole
<1>8. QED  BY <1>3, <1>4, <1>5, <1>6, <1>7 DEF AsmInv

LEMMA PopulateFrameKeeps == ASSUME AsmInv, PopulateFrame PROVE AsmInv'
<1>1. /\ seenSeq' = heldSeq /\ image' = holdbuf
      /\ UNCHANGED <<frame, part, lost, hurt, pkt, fid, got, outbuf, seq, holdbuf, heldSeq>>
  BY DEF PopulateFrame, camVars
<1>2. AsmType'  BY <1>1 DEF AsmInv, AsmType
<1>3. OneFramePerImage'  BY <1>1 DEF AsmInv, OneFramePerImage
<1>4. BufferIsOfLast'  BY <1>1 DEF AsmInv, BufferIsOfLast, CameraIsAfter
<1>5. PresentedIsOlder'  BY <1>1 DEF AsmInv, PresentedIsOlder
<1>6. WholeSoFar'  BY <1>1 DEF AsmInv, WholeSoFar, Whole
<1>7. QED  BY <1>2, <1>3, <1>4, <1>5, <1>6 DEF AsmInv

LEMMA AsmStep == AsmInv /\ [AsmNext]_asmVars => AsmInv'
<1> SUFFICES ASSUME AsmInv, [AsmNext]_asmVars PROVE AsmInv'
  OBVIOUS
<1>1. CASE \E eof \in BOOLEAN : Receive(eof)
  BY <1>1, ReceiveKeeps
<1>2. CASE HeaderOnly  BY <1>2, HeaderOnlyKeeps
<1>3. CASE CopyData  BY <1>3, CopyDataKeeps
<1>4. CASE Lose  BY <1>4, LoseKeeps
<1>5. CASE PopulateFrame  BY <1>5, PopulateFrameKeeps
<1>6. CASE UNCHANGED asmVars
  BY <1>6 DEF asmVars, AsmInv, AsmType, OneFramePerImage, BufferIsOfLast, CameraIsAfter,
              PresentedIsOlder, WholeSoFar, Whole
<1>7. QED  BY <1>1, <1>2, <1>3, <1>4, <1>5, <1>6 DEF AsmNext
-----------------------------------------------------------------------------
\* The frame-id bit, the end-of-frame bit and the size of the buffer together
\* show every new frame, whichever of them is lost with its packets.
THEOREM AsmInvariance == AsmSpec => []AsmInv
<1>1. QED  BY AsmStarts, AsmStep, PTL DEF AsmSpec

\* No buffer and no image holds packets of two frames.
THEOREM ImageIsOfOneFrame == AsmSpec => []OneFramePerImage
<1>1. AsmInv => OneFramePerImage  BY DEF AsmInv
<1>2. QED  BY <1>1, AsmInvariance, PTL

\* An image that lacks a packet is of a frame of which one was lost.
THEOREM ImageIsWhole == AsmSpec => []WholeUnlessLost
<1>1. AsmInv => WholeUnlessLost  BY DEF AsmInv, WholeSoFar, WholeUnlessLost
<1>2. QED  BY <1>1, AsmInvariance, PTL

\* The preview gets newer frames only.
THEOREM ImagesAreNewer == AsmSpec => ImagesAdvance
<1>1. ASSUME AsmInv, [AsmNext]_asmVars
      PROVE  [image' # image => \A a \in image, b \in image' : a[1] < b[1]]_asmVars
  <2>1. CASE PopulateFrame
    BY <1>1, <2>1 DEF PopulateFrame, AsmInv, PresentedIsOlder
  <2>2. CASE ~PopulateFrame
    BY <1>1, <2>2 DEF AsmNext, Receive, HeaderOnly, CopyData, Lose, asmVars
  <2>3. QED  BY <2>1, <2>2
<1>2. QED  BY <1>1, AsmInvariance, PTL DEF AsmSpec, ImagesAdvance
=============================================================================
