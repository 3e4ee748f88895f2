-------------------------------- MODULE X9313 --------------------------------
(***************************************************************************)
(* The brightness of the RGB lamp of the IMX6 board (rgb_led.c): write     *)
(* pulses the X9313 potentiometer all the way down and then up to the      *)
(* value.  Nothing guards it: any number of programs may open the device   *)
(* and write.  An open does not look at whether it gets the lines, the     *)
(* first release frees them for everybody, and an open after that gets     *)
(* them again and drives them high in the middle of a write.  On the 3.0   *)
(* board two of the weight sensors use lines of the lamp (OpenGate): an    *)
(* open that finds such a line taken leaves it the input it may be, and    *)
(* the writes that follow do not reach the potentiometer.                  *)
(*                                                                         *)
(* The potentiometer is external: a falling INC moves the wiper while CS   *)
(* is low, up or down as U/D says, and stops at both ends.  While a line   *)
(* is an input it may see anything, and what it does is left open.  The    *)
(* three lines of the colours are left out.                                *)
(***************************************************************************)
EXTENDS Integers, Gpio

CONSTANTS
  Users,        \* programs
  Values,       \* they write
  Top,          \* last position of the wiper
  Downs,        \* pulses down: 100 in the code, more than Top
  UD, CS, INC   \* the lines of the potentiometer

VARIABLES
  wiper,
  pc,
  pulses,     \* a write has left
  val,        \* of each write
  ready,      \* history: the lines were outputs when the write began
  disturbed   \* history: somebody else has moved a line since

vars == <<lineVars, wiper, pc, pulses, val, ready, disturbed>>

LampLines == {UD, CS, INC}

Init ==
  /\ GpioInit
  /\ wiper \in 0 .. Top
  /\ pc = [u \in Users |-> "closed"]
  /\ pulses = [u \in Users |-> 0]
  /\ val = [u \in Users |-> 0]
  /\ ready = [u \in Users |-> FALSE]
  /\ disturbed = [u \in Users |-> FALSE]

Goes(u, from, to) == pc[u] = from /\ pc' = [pc EXCEPT ![u] = to]

Step(way) == IF way = 1 THEN IF wiper < Top THEN 1 ELSE 0
                        ELSE IF wiper > 0 THEN -1 ELSE 0

\* The board drives all lines of the lamp.
Driven(out) == \A l \in LampLines : out[l]

\* What the potentiometer makes of a step on the lines.
Follows ==
  IF Driven(output) /\ Driven(output')
    THEN wiper' = IF level[INC] = 1 /\ level'[INC] = 0 /\ level[CS] = 0
                    THEN wiper + Step(level[UD]) ELSE wiper
    ELSE wiper' \in 0 .. Top

Moved == \E l \in LampLines : level'[l] # level[l] \/ output'[l] # output[l]

Writing == {"down", "low", "high", "up low", "up high", "written"}

\* A step of u disturbs the writes of the others if it moves a line.
DisturbsOthers(u) ==
  disturbed' = [w \in Users |->
                  disturbed[w] \/ (w # u /\ pc[w] \in Writing /\ Moved)]

Drive(u, l, v) == gpio_set_value(l, v) /\ Follows /\ DisturbsOthers(u)

Request(u, l, from, to) ==
  /\ Goes(u, from, to)
  /\ RequestOut(u, l, 1)
  /\ Follows /\ DisturbsOthers(u)
  /\ UNCHANGED <<pulses, val, ready>>

Free(u, l, from, to) ==
  /\ Goes(u, from, to)
  /\ gpio_free(l)
  /\ UNCHANGED <<wiper, pulses, val, ready, disturbed>>

Open(u) ==
  \/ Request(u, UD, "closed", "request cs")
  \/ Request(u, CS, "request cs", "request inc")
  \/ Request(u, INC, "request inc", "open")

Release(u) ==
  \/ Free(u, UD, "open", "free cs")
  \/ Free(u, CS, "free cs", "free inc")
  \/ Free(u, INC, "free inc", "closed")

-----------------------------------------------------------------------------
(* RGB_lumin_write.                                                        *)

Select(u) ==
  /\ Goes(u, "open", "down")
  /\ \E v \in Values : val' = [val EXCEPT ![u] = v]
  /\ gpio_set_value(CS, 0) /\ Follows
  /\ ready' = [ready EXCEPT ![u] = Driven(output)]
  /\ DisturbsOthers(u)
  /\ UNCHANGED pulses

\* Mutant: as many pulses down as there are positions above the first, less one.
Down_Short(u) ==
  /\ Goes(u, "down", "low")
  /\ Drive(u, UD, 0)
  /\ pulses' = [pulses EXCEPT ![u] = Top - 1]
  /\ UNCHANGED <<val, ready>>

Down(u) ==
  /\ Goes(u, "down", "low")
  /\ Drive(u, UD, 0)
  /\ pulses' = [pulses EXCEPT ![u] = Downs]
  /\ UNCHANGED <<val, ready>>

Low(u) ==
  /\ Goes(u, "low", "high")
  /\ pulses[u] > 0
  /\ Drive(u, INC, 0)
  /\ UNCHANGED <<pulses, val, ready>>

High(u) ==
  /\ Goes(u, "high", "low")
  /\ Drive(u, INC, 1)
  /\ pulses' = [pulses EXCEPT ![u] = @ - 1]
  /\ UNCHANGED <<val, ready>>

\* The way down is over; a value that is not positive gets no pulses up.
Up(u) ==
  /\ Goes(u, "low", "up low")
  /\ pulses[u] = 0
  /\ Drive(u, UD, 1)
  /\ pulses' = [pulses EXCEPT ![u] = val[u]]
  /\ UNCHANGED <<val, ready>>

UpLow(u) ==
  /\ Goes(u, "up low", "up high")
  /\ pulses[u] > 0
  /\ Drive(u, INC, 0)
  /\ UNCHANGED <<pulses, val, ready>>

UpHigh(u) ==
  /\ Goes(u, "up high", "up low")
  /\ Drive(u, INC, 1)
  /\ pulses' = [pulses EXCEPT ![u] = @ - 1]
  /\ UNCHANGED <<val, ready>>

Deselect(u) ==
  /\ Goes(u, "up low", "written")
  /\ pulses[u] <= 0
  /\ Drive(u, CS, 1)
  /\ UNCHANGED <<pulses, val, ready>>

Return(u) ==
  /\ Goes(u, "written", "open")
  /\ pulses' = [pulses EXCEPT ![u] = 0] /\ val' = [val EXCEPT ![u] = 0]
  /\ ready' = [ready EXCEPT ![u] = FALSE] /\ disturbed' = [disturbed EXCEPT ![u] = FALSE]
  /\ UNCHANGED <<lineVars, wiper>>

Write(u) ==
  \/ Select(u) \/ Down(u) \/ Low(u) \/ High(u) \/ Up(u) \/ UpLow(u) \/ UpHigh(u)
  \/ Deselect(u) \/ Return(u)

Next == \E u \in Users : Open(u) \/ Release(u) \/ Write(u)

Spec == Init /\ [][Next]_vars

-----------------------------------------------------------------------------
TypeOK ==
  /\ output \in [Lines -> BOOLEAN] /\ level \in [Lines -> {0, 1}] /\ wiper \in 0 .. Top
  /\ val \in [Users -> Values \cup {0}] /\ pulses \in [Users -> Int]
  /\ ready \in [Users -> BOOLEAN] /\ disturbed \in [Users -> BOOLEAN]

(* A write that finds the lines driven sets the wiper to its value, as far *)
(* as it goes, wherever it was before, unless somebody else moved a line   *)
(* during the write.                                                       *)
WriteSetsWiper ==
  \A u \in Users : pc[u] = "written" /\ ready[u] /\ ~disturbed[u] =>
    wiper = IF val[u] < 0 THEN 0 ELSE IF val[u] > Top THEN Top ELSE val[u]
==============================================================================
