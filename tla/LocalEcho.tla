------------------------------ MODULE LocalEcho ------------------------------
(***************************************************************************)
(* What a CAN driver promises the sockets of its own machine: a frame it   *)
(* takes goes out on the bus at most once and is then looped back, or it   *)
(* is dropped.  Frames are numbered in the order they were handed over,    *)
(* and one is under way at a time, so they go out and come back in that    *)
(* order.  Asm9260Can is shown to implement it.                            *)
(***************************************************************************)
EXTENDS Integers, Sequences

CONSTANTS Frames, NoFrame

VARIABLES
  slot,    \* the frame under way
  aired,   \* the frames that went out on the bus
  looped   \* the frames looped back, in that order

vars == <<slot, aired, looped>>

Init == slot = NoFrame /\ aired = {} /\ looped = <<>>

Take(f) ==
  /\ slot = NoFrame
  /\ \A g \in aired : g < f
  /\ slot' = f
  /\ UNCHANGED <<aired, looped>>

Air ==
  /\ slot # NoFrame /\ slot \notin aired
  /\ aired' = aired \cup {slot}
  /\ UNCHANGED <<slot, looped>>

Loop ==
  /\ slot \in aired
  /\ looped' = Append(looped, slot)
  /\ slot' = NoFrame
  /\ UNCHANGED aired

Drop == slot # NoFrame /\ slot' = NoFrame /\ UNCHANGED <<aired, looped>>

Next == (\E f \in Frames : Take(f)) \/ Air \/ Loop \/ Drop

Spec == Init /\ [][Next]_vars
=============================================================================
