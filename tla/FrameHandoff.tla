---------------------------- MODULE FrameHandoff ----------------------------
(***************************************************************************)
(* What ESPNowAsyncProtocolHandler promises to a protocol: a bounded FIFO   *)
(* of frames in front of one handler.  The promise says nothing of pool     *)
(* slots, pointers or locks; AsyncHandler is shown to implement it.         *)
(***************************************************************************)
EXTENDS Naturals, Sequences

CONSTANTS Frames,      \* the frames a protocol can receive
          NoFrame,     \* the handler is idle
          QueueDepth   \* Configuration::QueueDepth

VARIABLES open,        \* Submit hands frames over
          dropOldest,  \* Configuration::OverflowPolicy is DropOldest
          pending,     \* the accepted frames, oldest first, as the handler will see them
          running      \* the frame the handler is reading, as it sees it

vars == <<open, dropOldest, pending, running>>

Init == /\ open = FALSE
        /\ dropOldest = FALSE
        /\ pending = << >>
        /\ running = NoFrame

\* The policy is chosen before the queue opens.
Configure == /\ ~open
             /\ pending = << >>
             /\ dropOldest' \in BOOLEAN
             /\ UNCHANGED <<open, pending, running>>

Open == /\ ~open
        /\ pending = << >>
        /\ running = NoFrame
        /\ open' = TRUE
        /\ UNCHANGED <<dropOldest, pending, running>>

Close == /\ open
         /\ open' = FALSE
         /\ UNCHANGED <<dropOldest, pending, running>>

\* A frame accepted after the close would be handed to an executor that
\* Shutdown already owns.
Accept == /\ open
          /\ Len(pending) < QueueDepth
          /\ \E f \in Frames : pending' = Append(pending, f)
          /\ UNCHANGED <<open, dropOldest, running>>

Evict == /\ open
         /\ dropOldest
         /\ Len(pending) = QueueDepth
         /\ pending' = Tail(pending)
         /\ UNCHANGED <<open, dropOldest, running>>

Take == /\ running = NoFrame
        /\ pending # << >>
        /\ running' = Head(pending)
        /\ pending' = Tail(pending)
        /\ UNCHANGED <<open, dropOldest>>

Finish == /\ running # NoFrame
          /\ running' = NoFrame
          /\ UNCHANGED <<open, dropOldest, pending>>

Discard == /\ ~open
           /\ running = NoFrame
           /\ pending' = << >>
           /\ UNCHANGED <<open, dropOldest, running>>

Next == Configure \/ Open \/ Close \/ Accept \/ Evict \/ Take \/ Finish \/ Discard

Spec == Init /\ [][Next]_vars
=============================================================================
