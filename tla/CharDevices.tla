----------------------------- MODULE CharDevices -----------------------------
(***************************************************************************)
(* The character devices of the IMX6 board side by side: a weight sensor   *)
(* behind its gate (OpenGate), the temperature sensor, the clock and the   *)
(* lamp.  The lines of the weight sensor may be lines of the lamp, as on   *)
(* the 3.0 board, or not, as on the 4.0 board; the other two have lines of *)
(* their own.  mcp2515.c names some of these lines too, but its open is a  *)
(* trial of the chip that never returns: it is taken not to be used.       *)
(***************************************************************************)
EXTENDS OpenGate

CONSTANTS
  Threads,  \* that share the file of the sensor, and that of the clock
  Users,    \* programs that set the clock, and that use the lamp
  Samples,  \* bound: measurements of the sensor
  Start, Settings,  \* times of the clock
  MaxTicks,         \* bound: seconds that pass
  Values,           \* written to the lamp
  Top, Downs,       \* positions of its potentiometer, pulses down
  UD, CS, INC       \* lines of its potentiometer

ASSUME ActorsOK ==
  /\ Threads \cap Users = {} /\ Nobody \notin Threads \cup Users
  /\ Procs \cap Users = {}

\* The lamp is the other driver that requests lines of weight sensors.
ASSUME LampLinesOK ==
  Shared = {UD, CS, INC} /\ UD # CS /\ UD # INC /\ CS # INC

ASSUME SamplesOK == Samples \in Nat

\* Times are seconds of the hour.
ASSUME TimesOK == Start \in 0 .. 3599 /\ Settings \subseteq 0 .. 3599 /\ MaxTicks \in Nat

\* One pulse more than there are steps: INC may be low when the first comes.
ASSUME PulsesOK == Top \in Nat /\ Downs \in Nat /\ Downs > Top /\ Values \subseteq Int

VARIABLES opened, lock, temperature, humidity, data, measured, tpc, newest, stored, out
VARIABLES chip, ticks, mutex, static, cpc, tm, asked, shown, spoiled
VARIABLES wiper, upc, pulses, val, ready, disturbed

Sensor == INSTANCE Dht11 WITH pc <- tpc

Clock == INSTANCE Ds1302 WITH pc <- cpc, Readers <- Threads, Writers <- Users

Lamp == INSTANCE X9313 WITH pc <- upc

sensorVars == <<opened, lock, temperature, humidity, data, measured, tpc, newest, stored, out>>
clockVars == <<chip, ticks, mutex, static, cpc, tm, asked, shown, spoiled>>
lampVars == <<wiper, upc, pulses, val, ready, disturbed>>

DevicesInit == Init /\ Sensor!Init /\ Clock!Init /\ Lamp!Init

\* A step of a weight sensor may move lines of the lamp.
LampSees ==
  Lamp!Follows /\ Lamp!DisturbsOthers(Nobody) /\ UNCHANGED <<upc, pulses, val, ready>>

GateMoves == Next /\ LampSees /\ UNCHANGED <<sensorVars, clockVars>>

LampMoves == Lamp!Next /\ UNCHANGED <<weightfd, lines, pc, sensorVars, clockVars>>

SensorMoves == Sensor!Next /\ UNCHANGED <<vars, lampVars, clockVars>>

ClockMoves == Clock!Next /\ UNCHANGED <<vars, lampVars, sensorVars>>

DevicesNext == GateMoves \/ LampMoves \/ SensorMoves \/ ClockMoves

DevicesSpec == DevicesInit /\ [][DevicesNext]_<<vars, sensorVars, clockVars, lampVars>>

-----------------------------------------------------------------------------
(* Every device keeps the types of its state, and a line belongs to an     *)
(* opener of the sensor, to a user of the lamp or to nobody.               *)
TypesOK ==
  /\ TypeOK /\ Sensor!TypeOK /\ Clock!TypeOK /\ Lamp!TypeOK
  /\ owner \in [Lines -> Procs \cup Users \cup {Nobody}]

(* A read of the temperature returns the newest measurement.               *)
ReadIsNewest == Sensor!ReadIsNewest

(* A read of the clock returns what it showed.                             *)
ReadIsShown == Clock!ReadIsShown

(* A write that finds the lines driven sets the brightness it was given;   *)
(* only a weight sensor that uses lines of the lamp makes one begin with a *)
(* line that is not driven.                                                *)
WriteSetsWiper ==
  /\ Lamp!WriteSetsWiper
  /\ \A u \in Users : upc[u] \in Lamp!Writing /\ ~ready[u] =>
       {lines.data, lines.clock} \cap Lamp!LampLines # {}
==============================================================================
