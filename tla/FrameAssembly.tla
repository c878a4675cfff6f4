--------------------------- MODULE FrameAssembly ---------------------------
(***************************************************************************)
(* How libuvc puts the camera's payload packets together to frames and     *)
(* hands them to the thread that calls the preview (libuvc/src/stream.c).  *)
(* Where a frame ends is known from the end-of-frame bit of its last       *)
(* packet, from a full buffer, or from the frame-id bit, which alternates  *)
(* from frame to frame. Packets get lost, and any of the three with them.  *)
(*                                                                         *)
(* A packet is the number of its frame and its number in the frame; a      *)
(* buffer is the set of packets copied into it. Packets have size 1.       *)
(***************************************************************************)
EXTENDS Integers

CONSTANTS
  Parts,     \* the packets of a frame
  Capacity,  \* dwMaxVideoFrameSize
  MaxLost,   \* how many packets in a row may be lost
  MaxFrame   \* the camera sends the frames 1 .. MaxFrame

ASSUME PartsArePositive == Parts \in Nat \ {0}
ASSUME FrameFits == Capacity \in Nat /\ Capacity >= Parts
ASSUME NoWholeFrameLost == MaxLost \in Nat /\ MaxLost < Parts
ASSUME MaxFrameIsNat == MaxFrame \in Nat

VARIABLES
  frame, part,   \* the packet the camera sends next
  lost,          \* packets lost since the last one that was received
  hurt,          \* the frames of which a packet was not received
  pkt,           \* the packet whose data are still to be copied, or NoPkt
  fid,           \* strmh->fid
  got, outbuf,   \* strmh->got_bytes and strmh->outbuf
  seq,           \* strmh->seq
  holdbuf, heldSeq,  \* strmh->holdbuf and strmh->hold_seq
  seenSeq, image     \* of _uvc_user_caller: last_seq, and strmh->frame

camVars == <<frame, part, lost, hurt>>
asmVars == <<frame, part, lost, hurt, pkt, fid, got, outbuf, seq, holdbuf,
             heldSeq, seenSeq, image>>

Packet == (1 .. MaxFrame) \X (1 .. Parts)
NoPkt == [of |-> <<0, 0>>, eof |-> FALSE]

AsmType == /\ frame \in 1 .. MaxFrame + 1 /\ part \in 1 .. Parts
           /\ lost \in 0 .. MaxLost
           /\ hurt \subseteq 1 .. MaxFrame
           /\ pkt \in [of : Packet, eof : BOOLEAN] \cup {NoPkt}
           /\ fid \in {0, 1}
           /\ got \in 0 .. Capacity
           /\ outbuf \subseteq Packet /\ holdbuf \subseteq Packet
           /\ image \subseteq Packet
           /\ seq \in Nat \ {0} /\ heldSeq \in 0 .. seq - 1
           /\ seenSeq \in 0 .. heldSeq

\* Streaming may begin in the middle of a frame.
AsmInit == /\ frame = 1 /\ part \in 1 .. Parts /\ frame <= MaxFrame
           /\ lost = 0 /\ hurt = {f \in {1} : part # 1}
           /\ pkt = NoPkt
           /\ fid = 0
           /\ got = 0 /\ outbuf = {}
           /\ seq = 1
           /\ holdbuf = {} /\ heldSeq = 0
           /\ seenSeq = 0 /\ image = {}
-----------------------------------------------------------------------------
\* The frame-id bit of the packets of frame f
FidOf(f) == f % 2

CameraAdvances == IF part = Parts THEN frame' = frame + 1 /\ part' = 1
                                  ELSE part' = part + 1 /\ UNCHANGED frame

\* Mutant: got_bytes is not reset, so the frame presented before is in the buffer.
SwapBuffersKeepsBytes(buf) == /\ holdbuf' = buf
                              /\ heldSeq' = seq
                              /\ seq' = seq + 1
                              /\ outbuf' = holdbuf /\ UNCHANGED got

\* The frame is complete: it becomes the presented one.
SwapBuffers(buf) == /\ holdbuf' = buf
                    /\ heldSeq' = seq
                    /\ seq' = seq + 1
                    /\ outbuf' = {} /\ got' = 0

\* Mutant: only the end-of-frame bit and a full buffer end a frame.
HeaderKeepsBuffer(f) == /\ fid' = FidOf(f)
                        /\ UNCHANGED <<got, outbuf, seq, holdbuf, heldSeq>>

\* What the header says of frame f: a changed frame-id bit ends the frame in
\* the buffer, whose last packet did not arrive or had no end-of-frame bit.
Header(f) ==
  /\ fid' = FidOf(f)
  /\ IF fid # FidOf(f) /\ got # 0
     THEN SwapBuffers(outbuf)
     ELSE UNCHANGED <<got, outbuf, seq, holdbuf, heldSeq>>

\* A packet with image data arrives. Cameras may leave out the end-of-frame
\* bit, and none sets it before the last packet.
Receive(eof) ==
  /\ pkt = NoPkt
  /\ frame <= MaxFrame
  /\ eof => part = Parts
  /\ pkt' = [of |-> <<frame, part>>, eof |-> eof]
  /\ lost' = 0
  /\ Header(frame)
  /\ CameraAdvances
  /\ UNCHANGED <<hurt, seenSeq, image>>

\* A packet without image data; an end-of-frame bit in it is not looked at.
HeaderOnly ==
  /\ pkt = NoPkt
  /\ frame <= MaxFrame
  /\ Header(frame)
  /\ UNCHANGED <<camVars, pkt, seenSeq, image>>

\* Mutant: the buffers are swapped before the last data are copied.
CopyDataSwapsFirst ==
  /\ pkt # NoPkt
  /\ pkt' = NoPkt
  /\ IF pkt.eof \/ got + 1 = Capacity
     THEN SwapBuffers(outbuf)
     ELSE /\ outbuf' = outbuf \cup {pkt.of} /\ got' = got + 1
          /\ UNCHANGED <<seq, holdbuf, heldSeq>>
  /\ UNCHANGED <<camVars, fid, seenSeq, image>>

\* The data of the packet are copied, and complete the frame or not.
CopyData ==
  LET buf == outbuf \cup {pkt.of}
  IN  /\ pkt # NoPkt
      /\ pkt' = NoPkt
      /\ IF pkt.eof \/ got + 1 = Capacity
         THEN SwapBuffers(buf)
         ELSE outbuf' = buf /\ got' = got + 1 /\ UNCHANGED <<seq, holdbuf, heldSeq>>
      /\ UNCHANGED <<camVars, fid, seenSeq, image>>

\* A packet is lost on the bus, has the error bit set or a bogus header.
Lose ==
  /\ pkt = NoPkt
  /\ frame <= MaxFrame /\ lost < MaxLost
  /\ lost' = lost + 1
  /\ hurt' = hurt \cup {frame}
  /\ CameraAdvances
  /\ UNCHANGED <<pkt, fid, got, outbuf, seq, holdbuf, heldSeq, seenSeq, image>>

\* The user thread copies the presented frame, under the lock of the swap.
PopulateFrame ==
  /\ seenSeq # heldSeq
  /\ seenSeq' = heldSeq
  /\ image' = holdbuf
  /\ UNCHANGED <<camVars, pkt, fid, got, outbuf, seq, holdbuf, heldSeq>>

AsmNext == \/ \E eof \in BOOLEAN : Receive(eof)
           \/ HeaderOnly \/ CopyData \/ Lose
           \/ PopulateFrame

AsmSpec == AsmInit /\ [][AsmNext]_asmVars
-----------------------------------------------------------------------------
\* No image is put together from two frames: as long as fewer packets are lost
\* in a row than a frame has, the frame-id bit shows every new frame.
OneFramePerImage ==
  \A buf \in {outbuf, holdbuf, image} : \A a, b \in buf : a[1] = b[1]

\* The preview is never handed one frame twice, nor an older one after a newer.
ImagesAdvance ==
  [][image' # image => \A a \in image, b \in image' : a[1] < b[1]]_asmVars

\* An image lacks a part of its frame only if a packet of the frame was lost.
Whole(buf) == \A a \in buf : a[1] \notin hurt => \A n \in 1 .. Parts : <<a[1], n>> \in buf
WholeUnlessLost == Whole(image)
-----------------------------------------------------------------------------
(* The parts of the inductive invariant *)

\* The next packet of the camera is the n-th after p.
CameraIsAfter(p, n) ==
  \/ frame = p[1] /\ part = p[2] + n
  \/ frame = p[1] + 1 /\ part = p[2] + n - Parts

\* The last packet that was received is still to be copied, or is in a buffer
\* that is not empty; the packets before it in the buffer are of its frame.
BufferIsOfLast ==
  /\ got # Capacity /\ (got = 0 <=> outbuf = {})
  /\ \A p \in outbuf : FidOf(p[1]) = fid
  /\ pkt # NoPkt => /\ FidOf(pkt.of[1]) = fid
                    /\ lost = 0 /\ CameraIsAfter(pkt.of, 1)
                    /\ pkt.eof => pkt.of[2] = Parts
                    /\ pkt.of[2] > got
                    /\ \A p \in outbuf : p[1] = pkt.of[1]
  /\ pkt = NoPkt /\ outbuf # {} =>
       \E p \in outbuf : p[2] >= got /\ CameraIsAfter(p, lost + 1)

\* What was presented is of frames older than what is put together, and what
\* the user thread has is what is presented now or older.
PresentedIsOlder ==
  /\ \A a \in holdbuf \cup image :
       /\ a[1] < frame
       /\ pkt # NoPkt => a[1] < pkt.of[1]
       /\ \A b \in outbuf : a[1] < b[1]
  /\ IF seenSeq = heldSeq THEN image = holdbuf
     ELSE \A a \in image, b \in holdbuf : a[1] < b[1]

\* Of a frame of which no packet was lost, the packets before the next one of
\* the camera are in the buffer, the last of them perhaps still to be copied.
WholeSoFar ==
  /\ pkt = NoPkt /\ frame \notin hurt =>
       \A n \in 1 .. part - 1 : <<frame, n>> \in outbuf
  /\ pkt = NoPkt => \A a \in outbuf : a[1] # frame /\ a[1] \notin hurt =>
       \A n \in 1 .. Parts : <<a[1], n>> \in outbuf
  /\ pkt # NoPkt /\ pkt.of[1] \notin hurt =>
       \A n \in 1 .. pkt.of[2] - 1 : <<pkt.of[1], n>> \in outbuf
  /\ Whole(holdbuf) /\ Whole(image)

AsmInv == /\ AsmType /\ OneFramePerImage /\ BufferIsOfLast
          /\ PresentedIsOlder /\ WholeSoFar
=============================================================================
