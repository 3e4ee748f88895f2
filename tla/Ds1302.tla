-------------------------------- MODULE Ds1302 --------------------------------
(***************************************************************************)
(* Reading and setting the DS1302 clock of the IMX6 board (ds1302.c) by    *)
(* threads that share its file.  A read loads the registers one by one,    *)
(* under the mutex, into statics, and decodes them there, one after the    *)
(* other, without it.  Two of the six registers stand for all: one that    *)
(* carries into the next.                                                  *)
(*                                                                         *)
(* Time is the minute and the second of the hour, counted in seconds; the  *)
(* registers hold both in BCD and the chip goes on while they are read.    *)
(***************************************************************************)
EXTENDS Integers

CONSTANTS
  Readers, Writers,
  Nobody,
  Start,     \* the time the clock shows at first
  Settings,  \* the times it is set to
  MaxTicks   \* bound: seconds that pass

VARIABLES
  chip,     \* the registers
  ticks,    \* history: seconds passed
  mutex,    \* rtc_mutex
  static,   \* sec, min
  pc,       \* of readers and writers: the step and the register it is at
  tm,       \* rtc_tm of each reader
  asked,    \* the time each writer sets, Start while it does not
  shown,    \* history: times the clock showed while a reader loaded
  spoiled   \* history: another reader changed the statics since it began to load

vars == <<chip, ticks, mutex, static, pc, tm, asked, shown, spoiled>>

Fields == {"sec", "min"}

Bcd(v) == (v \div 10) * 16 + (v % 10)

Field(time, f) == IF f = "sec" THEN time % 60 ELSE time \div 60

Registers(time) == [f \in Fields |-> Bcd(Field(time, f))]

Binary(x) == (x \div 16) * 10 + (x % 16)

\* k seconds later; the hour is left out.
After(time, k) == (time + k) % 3600

Time(regs) == Binary(regs["min"]) * 60 + Binary(regs["sec"])

Zero == [f \in Fields |-> 0]

Init ==
  /\ chip = Registers(Start) /\ ticks = 0
  /\ mutex = Nobody
  /\ static = Zero
  /\ pc = [t \in Readers \cup Writers |-> "idle"]
  /\ tm = [r \in Readers |-> Zero]
  /\ asked = [w \in Writers |-> Start]
  /\ shown = [r \in Readers |-> {}]
  /\ spoiled = [r \in Readers |-> FALSE]

Goes(t, from, to) == pc[t] = from /\ pc' = [pc EXCEPT ![t] = to]

Loading(r) == pc[r] \in {"sec", "min"}

\* What a reader that loads can see from here on: nothing of a half-set clock.
Shows ==
  shown' = [r \in Readers |->
    IF pc'[r] \notin {"sec", "min"} THEN shown[r]
    ELSE (IF Loading(r) THEN shown[r] ELSE {})
         \cup (IF \E w \in Writers : pc'[w] = "set" THEN {} ELSE {Time(chip')})]

\* A reader that changes the statics spoils the others.
Spoils(r) ==
  spoiled' = [q \in Readers |-> IF q = r THEN spoiled[q] ELSE spoiled[q] \/ pc[q] # "idle"]

Tick ==
  /\ ticks < MaxTicks /\ ticks' = ticks + 1
  /\ chip' = Registers(After(Time(chip), 1))
  /\ UNCHANGED <<mutex, static, pc, tm, asked, spoiled>>
  /\ Shows

-----------------------------------------------------------------------------
(* ds1302_read.                                                            *)

Lock(r) ==
  /\ Goes(r, "idle", "sec")
  /\ mutex = Nobody /\ mutex' = r
  /\ spoiled' = [spoiled EXCEPT ![r] = FALSE]
  /\ UNCHANGED <<chip, ticks, static, tm, asked>>
  /\ Shows

Load(r, f) ==
  /\ static' = [static EXCEPT ![f] = chip[f]]
  /\ Spoils(r)
  /\ UNCHANGED <<chip, ticks, tm, asked>>
  /\ Shows

LoadSecond(r) == Goes(r, "sec", "min") /\ UNCHANGED mutex /\ Load(r, "sec")

\* mutex_unlock follows.
LoadMinute(r) == Goes(r, "min", "decode sec") /\ mutex' = Nobody /\ Load(r, "min")

\* In place.  The statics for the units and the tens are left out: a reader
\* that finds them changed is spoiled.
Decode(r, f, from, to) ==
  /\ Goes(r, from, to)
  /\ static' = [static EXCEPT ![f] = Binary(@)]
  /\ Spoils(r)
  /\ UNCHANGED <<chip, ticks, mutex, tm, asked, shown>>

Take(r, f, from, to) ==
  /\ Goes(r, from, to)
  /\ tm' = [tm EXCEPT ![r][f] = static[f]]
  /\ UNCHANGED <<chip, ticks, mutex, static, asked, shown, spoiled>>

\* copy_to_user; rtc_tm is gone.
Return(r) ==
  /\ Goes(r, "read", "idle")
  /\ tm' = [tm EXCEPT ![r] = Zero]
  /\ shown' = [shown EXCEPT ![r] = {}]
  /\ UNCHANGED <<chip, ticks, mutex, static, asked, spoiled>>

Read(r) ==
  \/ Lock(r) \/ LoadSecond(r) \/ LoadMinute(r)
  \/ Decode(r, "sec", "decode sec", "take sec") \/ Take(r, "sec", "take sec", "decode min")
  \/ Decode(r, "min", "decode min", "take min") \/ Take(r, "min", "take min", "read")
  \/ Return(r)

-----------------------------------------------------------------------------
(* ds1302_write.                                                           *)

\* Mutant: the registers are set without the mutex.
SetSecond_Unlocked(w) ==
  /\ Goes(w, "idle", "set")
  /\ \E time \in Settings :
       /\ asked' = [asked EXCEPT ![w] = time]
       /\ chip' = [chip EXCEPT !["sec"] = Bcd(Field(time, "sec"))]
  /\ UNCHANGED <<ticks, mutex, static, tm, spoiled>>
  /\ Shows

\* The table turns a value into BCD; the register is written under the mutex.
SetSecond(w) ==
  /\ Goes(w, "idle", "set")
  /\ mutex = Nobody /\ mutex' = w
  /\ \E time \in Settings :
       /\ asked' = [asked EXCEPT ![w] = time]
       /\ chip' = [chip EXCEPT !["sec"] = Bcd(Field(time, "sec"))]
  /\ UNCHANGED <<ticks, static, tm, spoiled>>
  /\ Shows

\* The last register and mutex_unlock.
SetMinute(w) ==
  /\ Goes(w, "set", "idle")
  /\ chip' = [chip EXCEPT !["min"] = Bcd(Field(asked[w], "min"))]
  /\ mutex' = Nobody
  /\ asked' = [asked EXCEPT ![w] = Start]
  /\ UNCHANGED <<ticks, static, tm, spoiled>>
  /\ Shows

Next == Tick \/ (\E r \in Readers : Read(r)) \/ (\E w \in Writers : SetSecond(w) \/ SetMinute(w))

Spec == Init /\ [][Next]_vars

-----------------------------------------------------------------------------
TypeOK ==
  LET Bytes == [Fields -> 0 .. 255] IN
  /\ {chip, static} \subseteq Bytes /\ tm \in [Readers -> Bytes]
  /\ ticks \in 0 .. MaxTicks /\ mutex \in Readers \cup Writers \cup {Nobody}
  /\ asked \in [Writers -> Settings \cup {Start}]
  /\ spoiled \in [Readers -> BOOLEAN]

\* The clock went on from a for k seconds, and the reader saw all of them.
SawRun(r, a, k) == \A i \in 0 .. k : After(a, i) \in shown[r]

(* What a read returns is a second and a minute the clock showed, in this  *)
(* order and with no setting in between, while the read held the mutex:    *)
(* the second may be from before a carry and the minute from after it.     *)
(* Another reader, and nothing else, may spoil it.                         *)
ReadIsShown ==
  \A r \in Readers : pc[r] = "read" /\ ~spoiled[r] =>
    \E a \in shown[r], k \in 0 .. ticks :
      /\ SawRun(r, a, k)
      /\ tm[r]["sec"] = Field(a, "sec")
      /\ tm[r]["min"] = Field(After(a, k), "min")
==============================================================================
