---------------------------- MODULE FrameSource ----------------------------
(***************************************************************************)
(* What the preview relies on when it streams from a camera: the frame     *)
(* callback is called only between the start of streaming and the return   *)
(* of its stop, by one caller at a time, and each time with a newer frame. *)
(* UvcStream implements it; UvcPreview is built on it.                     *)
(***************************************************************************)
EXTENDS Integers

CONSTANT MaxSeq  \* frames of one streaming are numbered 1 .. MaxSeq

ASSUME MaxSeqIsNat == MaxSeq \in Nat

VARIABLES
  open,     \* streaming has been started, and its stop has not returned
  calling,  \* the frame callback is running
  current   \* the number of the frame passed last

sourceVars == <<open, calling, current>>

SourceType == /\ open \in BOOLEAN /\ calling \in BOOLEAN
              /\ current \in 0 .. MaxSeq

SourceInit == open = FALSE /\ calling = FALSE /\ current = 0

Open == /\ ~open
        /\ open' = TRUE /\ current' = 0
        /\ UNCHANGED calling

CallBegins == /\ open /\ ~calling
              /\ calling' = TRUE
              /\ \E n \in current + 1 .. MaxSeq : current' = n
              /\ UNCHANGED open

CallEnds == /\ calling
            /\ calling' = FALSE
            /\ UNCHANGED <<open, current>>

\* Stopping waits for a callback that is running.
Close == /\ open /\ ~calling
         /\ open' = FALSE
         /\ UNCHANGED <<calling, current>>

SourceNext == Open \/ CallBegins \/ CallEnds \/ Close

SourceSpec == SourceInit /\ [][SourceNext]_sourceVars
=============================================================================
