---------------------------- MODULE MCCharDevices ----------------------------
(* Values for the character devices.  The clock is one second short of the *)
(* carry into the next hour, or set to one before a carry in both digits   *)
(* of the minute; the lamp has three positions.  A weight sensor is wired  *)
(* as sensor 1 or 2 of the 3.0 board or as one of the 4.0 board.           *)
EXTENDS CharDevices, TLC

CONSTANTS DOUT, SCK   \* lines of a weight sensor that are none of the lamp's

MCStart == 59 * 60 + 58

MCSettings == {9 * 60 + 59}

MCValues == {-1, 1, 3}

MCShared == {UD, CS, INC}

MCLines == MCShared \cup {DOUT, SCK}

MCWirings ==
  {[data |-> UD, clock |-> CS], [data |-> INC, clock |-> SCK], [data |-> DOUT, clock |-> SCK]}

MCSymmetry == Permutations(Users) \cup Permutations(Threads)

\* Bound: the lamp has one user beside one opener of the weight sensor, or two
\* where the sensor has lines of its own, which write values that are in its
\* range or above; the weight sensor has all openers before the lamp was ever
\* used; the temperature sensor and the clock are used alone.
LampUsers == {u \in Users : upc[u] # "closed"}
LampUnused == wiper = 0 /\ \A l \in Lines \ {lines.data, lines.clock} : ~output[l]
Crowd == \/ Cardinality(LampUsers) <= 1 /\ Cardinality(Inside) <= 1
         \/ lines.data = DOUT /\ Inside = {} /\ \A u \in Users : val[u] >= 0
         \/ LampUsers = {} /\ LampUnused
Alone == Init /\ lines.data = DOUT /\ Lamp!Init /\ wiper = 0

MCNext ==
  \/ Sensor!Init /\ Clock!Init /\ (GateMoves \/ LampMoves) /\ Crowd'
  \/ Alone /\ Clock!Init /\ SensorMoves
  \/ Alone /\ Sensor!Init /\ ClockMoves

MCSpec == DevicesInit /\ [][MCNext]_<<vars, lampVars, sensorVars, clockVars>>
==============================================================================
