----------------------------- MODULE FrameQueue -----------------------------
(***************************************************************************)
(* What the render ring promises one window: the frames the game thread    *)
(* commits are shown one by one, in order, unless a rebuild of the window  *)
(* throws away all that wait.                                              *)
(***************************************************************************)
EXTENDS Integers, Sequences

CONSTANTS Capacity,    \* the most frames that may wait
          FrameIds     \* frames are numbered modulo this

NoFrame == -1

VARIABLES last,        \* the frame committed last
          queue,       \* the frames that wait
          shown        \* the frame being shown, or NoFrame

Init == last = 0 /\ queue = <<>> /\ shown = NoFrame

Commit == /\ Len(queue) < Capacity
          /\ last' = (last + 1) % FrameIds
          /\ queue' = Append(queue, last')
          /\ UNCHANGED shown

Take == /\ queue # <<>>
        /\ shown' = Head(queue)
        /\ queue' = Tail(queue)
        /\ UNCHANGED last

Flush == queue' = <<>> /\ shown' = NoFrame /\ UNCHANGED last

Next == Commit \/ Take \/ Flush

Spec == Init /\ [][Next]_<<last, queue, shown>>
=============================================================================
