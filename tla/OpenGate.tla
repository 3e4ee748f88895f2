------------------------------- MODULE OpenGate -------------------------------
(***************************************************************************)
(* The gate in front of every character driver of the IMX6 board and of    *)
(* the ASM9260 clock driver: an atomic_t that starts at 1.  open takes one *)
(* off and goes on only when the result is zero, release puts it back.     *)
(* Shown here for one weight sensor of 1HM_HX711X4.c; its other sensors,   *)
(* ds1302.c, temphumi.c, bh1750_dt.c and ds1302rtc.c repeat the lines with *)
(* other pins.                                                             *)
(*                                                                         *)
(* The gate and the pins are separate steps: open decides first and then   *)
(* requests the data line and the clock line, without looking at the       *)
(* results, and release frees both before it lets the next opener in (the  *)
(* other sensors free the data line first).                                *)
(* The gate keeps other openers of the same sensor from the lines, but not *)
(* other drivers: on the 3.0 board the lamp requests lines of two of the   *)
(* sensors as well.                                                        *)
(***************************************************************************)
EXTENDS Integers, FiniteSets, Gpio

CONSTANTS
  Procs,    \* openers
  Wirings,  \* the data and clock lines a sensor may be wired to
  Shared    \* lines that other drivers of the board request too

ASSUME ProcsOK == IsFiniteSet(Procs) /\ Nobody \notin Procs

ASSUME WiringsOK ==
  /\ Wirings \subseteq [data : Lines, clock : Lines]
  /\ \A w \in Wirings : w.data # w.clock
  /\ Shared \subseteq Lines

VARIABLES
  weightfd,  \* the atomic_t
  lines,     \* of this sensor
  pc         \* where each opener is

vars == <<weightfd, lines, pc, owner, output, level>>

Init ==
  /\ weightfd = 1
  /\ lines \in Wirings
  /\ pc = [p \in Procs |-> "closed"]
  /\ GpioInit

Goes(p, from, to) == pc[p] = from /\ pc' = [pc EXCEPT ![p] = to]

\* Mutant: the gate lets through whoever finds the counter not negative yet.
DecAndTest_Late(p) ==
  /\ weightfd' = weightfd - 1
  /\ Goes(p, "closed", IF weightfd >= 0 THEN "won" ELSE "lost")
  /\ UNCHANGED <<lines, lineVars>>

\* atomic_dec_and_test: one atomic step.
DecAndTest(p) ==
  /\ weightfd' = weightfd - 1
  /\ Goes(p, "closed", IF weightfd - 1 = 0 THEN "won" ELSE "lost")
  /\ UNCHANGED <<lines, lineVars>>

\* Mutant: the loser returns -EBUSY and leaves the counter as it is.
Busy_NoUndo(p) ==
  /\ Goes(p, "lost", "closed")
  /\ UNCHANGED <<weightfd, lines, lineVars>>

\* The loser puts its decrement back and returns -EBUSY.
Busy(p) ==
  /\ weightfd' = weightfd + 1
  /\ Goes(p, "lost", "closed")
  /\ UNCHANGED <<lines, lineVars>>

RequestData(p) ==
  /\ Goes(p, "won", "data")
  /\ RequestIn(p, lines.data)
  /\ UNCHANGED <<weightfd, lines>>

RequestClock(p) ==
  /\ Goes(p, "data", "open")
  /\ RequestOut(p, lines.clock, 0)
  /\ UNCHANGED <<weightfd, lines>>

\* What reads do to the lines, whoever owns them, in any order (WeightRead has
\* the order): the data line is driven and let go, the clock line pulsed.
Drive(p) ==
  /\ pc[p] = "open"
  /\ \/ gpio_direction_output(lines.data, 1)
     \/ gpio_direction_input(lines.data)
     \/ gpio_direction_output(lines.clock, 0)
     \/ \E v \in {0, 1} : gpio_set_value(lines.clock, v)
  /\ UNCHANGED <<weightfd, lines, pc>>

FreeClock(p) ==
  /\ Goes(p, "open", "freeing")
  /\ gpio_free(lines.clock)
  /\ UNCHANGED <<weightfd, lines>>

\* Mutant: release opens the gate before it frees the data line.
Free_AfterGate(p) ==
  /\ Goes(p, "freeing", "freed")
  /\ weightfd' = weightfd + 1
  /\ UNCHANGED <<lines, lineVars>>

FreeData(p) ==
  /\ Goes(p, "freeing", "freed")
  /\ gpio_free(lines.data)
  /\ UNCHANGED <<weightfd, lines>>

Release(p) ==
  /\ Goes(p, "freed", "closed")
  /\ weightfd' = weightfd + 1
  /\ UNCHANGED <<lines, lineVars>>

Next ==
  \E p \in Procs :
    \/ DecAndTest(p) \/ Busy(p) \/ RequestData(p) \/ RequestClock(p) \/ Drive(p)
    \/ FreeClock(p) \/ FreeData(p) \/ Release(p)

Spec == Init /\ [][Next]_vars

-----------------------------------------------------------------------------
Steps == {"closed", "won", "lost", "data", "open", "freeing", "freed"}
Through == {"won", "data", "open", "freeing", "freed"}

TypeOK ==
  /\ weightfd \in 1 - Cardinality(Procs) .. 1
  /\ lines \in Wirings
  /\ pc \in [Procs -> Steps]
  /\ output \in [Lines -> BOOLEAN] /\ level \in [Lines -> {0, 1}]

Inside == {p \in Procs : pc[p] # "closed"}

(* At most one opener is past the gate: two programs never drive the same  *)
(* sensor.                                                                 *)
OneOpener == \A p, q \in Procs : pc[p] \in Through /\ pc[q] \in Through => p = q

\* Whether p is about to request line l, and whether it has and has not freed it.
Asks(p, l) == \/ pc[p] = "won" /\ l = lines.data
              \/ pc[p] = "data" /\ l = lines.clock
Keeps(p, l) == \/ pc[p] \in {"data", "open", "freeing"} /\ l = lines.data
               \/ pc[p] = "open" /\ l = lines.clock

(* No earlier opener owns a line when the next one requests it, unchecked, *)
(* or uses it; and a line that no other driver requests is the opener's    *)
(* own from its request to its release.                                    *)
PinsFollowGate ==
  \A p \in Procs, l \in Lines :
    /\ Asks(p, l) => owner[l] \notin Procs
    /\ Keeps(p, l) => /\ owner[l] \notin Procs \ {p}
                      /\ l \notin Shared => owner[l] = p

(* The counter is short by one for everybody inside, so that it is back at *)
(* 1, and the device can be opened, as soon as nobody is.                  *)
CounterCountsInside == weightfd = 1 - Cardinality(Inside)

-----------------------------------------------------------------------------
(* Refinement: the holder is the opener past the gate, until it frees the  *)
(* lines and lets the next one in.                                         *)
Holder ==
  IF \E p \in Procs : pc[p] \in Through
    THEN CHOOSE p \in Procs : pc[p] \in Through
    ELSE Nobody

Abstract == INSTANCE ExclusiveOpen WITH holder <- Holder

AbstractSpec == Abstract!Spec
===============================================================================
