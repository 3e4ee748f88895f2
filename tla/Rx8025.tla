---------------------------- MODULE Rx8025 ----------------------------
(***************************************************************************)
(* The RX8025SA real-time clock driver of the ASM9260 board                *)
(* (RX8025SA_rw.c under RX8025SAdriver.c).  The chip counts on its own;    *)
(* the driver reads and writes its time one register per bus transfer,     *)
(* seconds first, so that the clock ticks between the transfers of one     *)
(* reading or of one setting.                                              *)
(*                                                                         *)
(* A time is what the chip's registers 1..N (seconds, minutes, hours,      *)
(* days, ...) hold in 24-hour mode: register i counts from First[i] to     *)
(* Last[i].  The driver stores the caller's numbers as they come, tm_mon   *)
(* too, which counts the months from 0 where the register counts from 1:   *)
(* the times set here are those the registers can hold, so January is not  *)
(* among them.  In 12-hour mode the hour register is coded differently     *)
(* (PM as 21..32), and the model says nothing of what it holds or of when  *)
(* the alarm goes off.                                                     *)
(*                                                                         *)
(* The operations exclude each other: the RTC core holds its ops_lock      *)
(* around the ioctls, and this kernel does not preempt the sysfs handlers, *)
(* which never sleep.  BCD, the weekday register and the bit clocking of   *)
(* the bus are left out.                                                   *)
(***************************************************************************)
EXTENDS Naturals

CONSTANTS N,     \* the number of time fields, seconds to years
          First, \* First[i]: the smallest value of field i
          Last   \* Last[i]: the largest

Fields == 1..N
Minutes == 2
Hours == 3

ASSUME FieldsAssumption == /\ N \in Nat /\ N >= 3
                           /\ First \in [Fields -> Nat]
                           /\ Last \in [Fields -> Nat]
                           /\ \A i \in Fields : First[i] <= Last[i]

Times == {t \in [Fields -> UNION {First[i]..Last[i] : i \in Fields}] :
            \A i \in Fields : First[i] <= t[i] /\ t[i] <= Last[i]}
NoAlarm == [set |-> FALSE, min |-> 0, hour |-> 0]
Alarms == [set : BOOLEAN, min : Nat, hour : Nat]

VARIABLES
  regs,     \* the chip's time registers
  mode24,   \* CONTROL1 bit 0x20, 24-hour display
  dale,     \* CONTROL1 bit 0x40, alarm D enabled
  alm,      \* the alarm D registers (.set is not used)
  flag,     \* CONTROL2 bit 0x01, alarm D has gone off
  op, pos,  \* the driver call in progress and the transfer it has reached
  arg,      \* the time the call was given
  tm,       \* the fields a reading has so far
  start,    \* history: the clock when the reading took its first field
  carry,    \* history: the highest field a tick has carried into since
  due,      \* history: the time that was set, counted on since
  slipped,  \* history: a tick carried into a field the setting had yet to write
  asked,    \* history: the alarm last set
  unseen    \* history: the alarm has gone off with no read of the flag since,
            \* "late" if only after a clear had looked at it, else "early"

chip == <<regs, mode24, dale, alm, flag>>
call == <<op, pos, arg, tm>>
hist == <<start, carry, due, slipped, asked, unseen>>
vars == <<chip, call, hist>>

Init ==
  /\ regs \in Times
  /\ mode24 \in BOOLEAN
  /\ dale = FALSE /\ flag = FALSE /\ alm = NoAlarm
  /\ op = "idle" /\ pos = 0 /\ arg = First /\ tm = First
  /\ start = First /\ carry = 0 /\ due = First
  /\ slipped = FALSE /\ asked = NoAlarm /\ unseen = "no"

------------------------------------------------------------------------
(* The order of times, and counting. *)

\* a is not after b: every field in which a is ahead is outweighed by a
\* higher one in which it is behind.
NotAfter(a, b) ==
  \A i \in Fields : a[i] > b[i] => \E j \in i+1..N : a[j] < b[j]

CarriesInto(t, i) == t[i] < Last[i] /\ \A j \in 1..i-1 : t[j] = Last[j]

Carried(t, i) ==
  [j \in Fields |-> IF j < i THEN First[j] ELSE IF j = i THEN t[i] + 1 ELSE t[j]]

------------------------------------------------------------------------
(* The chip. *)

Reached(t, a) == t[Minutes] = a.min /\ t[Hours] = a.hour

\* Alarm D goes off when the minute changes to the one it waits for.
Rings(t, i) == dale /\ i >= Minutes /\ Reached(t, alm)

\* Whether the alarm goes off in this step: the flag goes up or stays up.
GoesOff(now) ==
  /\ flag' = (flag \/ now)
  /\ unseen' = IF ~now THEN unseen
               ELSE IF op = "clear" /\ pos > 1 /\ unseen # "early" THEN "late"
               ELSE "early"

Setting == op = "set" /\ pos > 1

\* One second in 24-hour mode.  The count is bounded by the last year.
Tick ==
  \E i \in Fields :
    /\ mode24 /\ CarriesInto(regs, i)
    /\ regs' = Carried(regs, i)
    /\ GoesOff(Rings(regs', i))
    /\ carry' = IF op = "get" /\ i > carry THEN i ELSE carry
    /\ IF Setting
         THEN \E k \in Fields : CarriesInto(due, k) /\ due' = Carried(due, k)
         ELSE due' = due
    /\ slipped' = (slipped \/ (Setting /\ i >= pos))
    /\ UNCHANGED <<mode24, dale, alm, call, start, asked>>

\* In 12-hour mode the hour register and the alarm's are coded differently,
\* while RTC_ALM_SET writes the alarm's hour as in 24-hour mode without
\* choosing one: the alarm may go off at any time, or not.
Tick12 ==
  /\ ~mode24
  /\ regs' \in Times
  /\ \E now \in {FALSE, dale} : GoesOff(now)
  /\ UNCHANGED <<mode24, dale, alm, call, start, carry, due, slipped, asked>>

------------------------------------------------------------------------
(* The driver. *)

Begin(o, p, t) == op = "idle" /\ op' = o /\ pos' = p /\ arg' = t /\ tm' = tm

\* RTC_RD_TIME and RTC_SET_TIME first put the chip into 24-hour mode.
RX8025_rtc_read_time == Begin("get", 0, First) /\ UNCHANGED <<chip, hist>>

RX8025_rtc_set_time ==
  \E t \in Times : Begin("set", 0, t) /\ UNCHANGED <<chip, hist>>

Ensure24 ==
  /\ op \in {"get", "set"} /\ pos = 0
  /\ mode24' = TRUE
  /\ pos' = 1
  /\ start' = IF op = "get" THEN regs ELSE start
  /\ UNCHANGED <<regs, dale, alm, flag, op, arg, tm>>
  /\ UNCHANGED <<carry, due, slipped, asked, unseen>>

\* Mutant: The reading takes the highest register first.
GetTimeYearsFirst ==
  /\ op = "get" /\ pos \in Fields
  /\ tm' = [tm EXCEPT ![N + 1 - pos] = regs[N + 1 - pos]]
  /\ pos' = pos + 1
  /\ UNCHANGED <<op, arg, chip, hist>>

\* Mutant: The reading leaves out the highest register.
GetTimeShort ==
  /\ op = "get" /\ pos \in Fields
  /\ tm' = IF pos = N THEN tm ELSE [tm EXCEPT ![pos] = regs[pos]]
  /\ pos' = pos + 1
  /\ UNCHANGED <<op, arg, chip, hist>>

RX8025_get_Time ==
  /\ op = "get" /\ pos \in Fields
  /\ tm' = [tm EXCEPT ![pos] = regs[pos]]
  /\ pos' = pos + 1
  /\ UNCHANGED <<op, arg, chip, hist>>

\* Mutant: The setting writes the highest register first.
TimeSetYearsFirst ==
  /\ op = "set" /\ pos \in Fields
  /\ regs' = [regs EXCEPT ![N + 1 - pos] = arg[N + 1 - pos]]
  /\ due' = IF pos = 1 THEN arg ELSE due
  /\ pos' = pos + 1
  /\ UNCHANGED <<mode24, dale, alm, flag, op, arg, tm>>
  /\ UNCHANGED <<start, carry, slipped, asked, unseen>>

\* Mutant: The setting writes fields counted from 1 into registers counted from 0.
TimeSetFromOne ==
  /\ op = "set" /\ pos \in Fields
  /\ regs' = [regs EXCEPT ![pos] = arg[pos] + 1]
  /\ due' = IF pos = 1 THEN arg ELSE due
  /\ pos' = pos + 1
  /\ UNCHANGED <<mode24, dale, alm, flag, op, arg, tm>>
  /\ UNCHANGED <<start, carry, slipped, asked, unseen>>

RX8025_Time_set ==
  /\ op = "set" /\ pos \in Fields
  /\ regs' = [regs EXCEPT ![pos] = arg[pos]]
  /\ due' = IF pos = 1 THEN arg ELSE due
  /\ pos' = pos + 1
  /\ UNCHANGED <<mode24, dale, alm, flag, op, arg, tm>>
  /\ UNCHANGED <<start, carry, slipped, asked, unseen>>

Return ==
  /\ op \in {"get", "set"} /\ pos = N + 1
  /\ op' = "idle" /\ pos' = 0 /\ arg' = First /\ tm' = First
  /\ start' = First /\ carry' = 0 /\ due' = First /\ slipped' = FALSE
  /\ UNCHANGED <<chip, asked, unseen>>

\* RTC_ALM_SET: alarm minute, alarm hour, then the enable bit.
RX8025_rtc_setalarm ==
  \E t \in Times :
    /\ \A i \in Fields \ {Minutes, Hours} : t[i] = First[i]
    /\ Begin("arm", 1, t) /\ UNCHANGED <<chip, hist>>

\* Mutant: RTC_ALM_SET forgets the hour register.
AlarmSetNoHour ==
  /\ op = "arm"
  /\ \/ /\ pos = 1 /\ pos' = 2
        /\ alm' = [alm EXCEPT !.min = arg[Minutes]]
        /\ UNCHANGED <<op, arg, dale, asked>>
     \/ /\ pos = 2 /\ pos' = 3 /\ UNCHANGED <<alm, op, arg, dale, asked>>
     \/ /\ pos = 3 /\ dale' = TRUE
        /\ op' = "idle" /\ pos' = 0 /\ arg' = First
        /\ asked' = [set |-> TRUE, min |-> arg[Minutes], hour |-> arg[Hours]]
        /\ alm' = alm
  /\ UNCHANGED <<regs, mode24, flag, tm>>
  /\ UNCHANGED <<start, carry, due, slipped, unseen>>

\* Mutant: RTC_ALM_SET takes back the flag an earlier alarm has left.
AlarmSetClears ==
  /\ op = "arm"
  /\ \/ /\ pos = 1 /\ pos' = 2
        /\ alm' = [alm EXCEPT !.min = arg[Minutes]]
        /\ UNCHANGED <<op, arg, dale, flag, asked>>
     \/ /\ pos = 2 /\ pos' = 3
        /\ alm' = [alm EXCEPT !.hour = arg[Hours]]
        /\ UNCHANGED <<op, arg, dale, flag, asked>>
     \/ /\ pos = 3 /\ dale' = TRUE /\ flag' = FALSE
        /\ op' = "idle" /\ pos' = 0 /\ arg' = First
        /\ asked' = [set |-> TRUE, min |-> arg[Minutes], hour |-> arg[Hours]]
        /\ alm' = alm
  /\ UNCHANGED <<regs, mode24, tm>>
  /\ UNCHANGED <<start, carry, due, slipped, unseen>>

RX8025_INTA_OutIrq_set ==
  /\ op = "arm"
  /\ \/ /\ pos = 1 /\ pos' = 2
        /\ alm' = [alm EXCEPT !.min = arg[Minutes]]
        /\ UNCHANGED <<op, arg, dale, asked>>
     \/ /\ pos = 2 /\ pos' = 3
        /\ alm' = [alm EXCEPT !.hour = arg[Hours]]
        /\ UNCHANGED <<op, arg, dale, asked>>
     \/ /\ pos = 3 /\ dale' = TRUE
        /\ op' = "idle" /\ pos' = 0 /\ arg' = First
        /\ asked' = [set |-> TRUE, min |-> arg[Minutes], hour |-> arg[Hours]]
        /\ alm' = alm
  /\ UNCHANGED <<regs, mode24, flag, tm>>
  /\ UNCHANGED <<start, carry, due, slipped, unseen>>

\* A write to the sysfs file clears the flag, if one of two looks finds it
\* (unless strcmp with "1" returns just 1: such a write does nothing).
RX8025_set_store == Begin("clear", 0, First) /\ UNCHANGED <<chip, hist>>

\* The first look wants another bit of the register set as well.
RX8025_Look ==
  /\ op = "clear" /\ pos < 2
  /\ \E other \in BOOLEAN :
       IF flag /\ (pos = 1 \/ other)
         THEN op' = op /\ pos' = 2
         ELSE IF pos = 0 THEN op' = op /\ pos' = 1 ELSE op' = "idle" /\ pos' = 0
  /\ unseen' = IF flag THEN "no" ELSE unseen
  /\ UNCHANGED <<chip, arg, tm, start, carry, due, slipped, asked>>

\* A third read fetches the bits to keep, and the write back erases the flag.
RX8025_SET_CONTROL2_CTFG ==
  /\ op = "clear"
  /\ \/ /\ pos = 2 /\ pos' = 3 /\ UNCHANGED <<op, flag, unseen>>
     \/ /\ pos = 3 /\ flag' = FALSE /\ unseen' = "no"
        /\ op' = "idle" /\ pos' = 0
  /\ UNCHANGED <<regs, mode24, dale, alm, arg, tm>>
  /\ UNCHANGED <<start, carry, due, slipped, asked>>

\* A read of the sysfs file shows the flag.
RX8025_get_show ==
  /\ op = "idle" /\ flag
  /\ unseen' = "no"
  /\ UNCHANGED <<chip, call, start, carry, due, slipped, asked>>

Next ==
  \/ Tick \/ Tick12
  \/ RX8025_rtc_read_time \/ RX8025_rtc_set_time \/ Ensure24
  \/ RX8025_get_Time \/ RX8025_Time_set \/ Return
  \/ RX8025_rtc_setalarm \/ RX8025_INTA_OutIrq_set
  \/ RX8025_set_store \/ RX8025_Look \/ RX8025_SET_CONTROL2_CTFG
  \/ RX8025_get_show

Spec == Init /\ [][Next]_vars

------------------------------------------------------------------------
(* Properties. *)

\* The registers, the call in progress and the bytes it has are well formed.
TypeOK ==
  /\ regs \in Times /\ arg \in Times /\ tm \in Times
  /\ start \in Times /\ due \in Times
  /\ alm \in Alarms /\ asked \in Alarms
  /\ mode24 \in BOOLEAN /\ dale \in BOOLEAN /\ flag \in BOOLEAN
  /\ slipped \in BOOLEAN /\ unseen \in {"no", "early", "late"}
  /\ op \in {"idle", "get", "set", "arm", "clear"}
  /\ pos \in 0..N+1 /\ carry \in 0..N

\* RX8025_get_Time takes the seven registers in seven transfers and the clock
\* carries between them.  Because it takes the seconds first, the time it
\* returns is never earlier than the one the clock showed when it began.
ReadNotBehind == op = "get" /\ pos = N + 1 => NotAfter(start, tm)

\* A torn reading is wrong only below the highest carry that fell into it:
\* the fields above are those of the clock, and with no carry out of the
\* seconds the reading is not ahead of the clock either.
ReadAheadOnlyByCarry ==
  op = "get" /\ pos = N + 1 =>
    /\ \A i \in Fields : i > carry => tm[i] = regs[i]
    /\ carry <= 1 => NotAfter(tm, regs)

\* RX8025_Time_set writes the seconds first, so a tick may carry into a
\* register that is overwritten afterwards.  The clock then loses that carry;
\* it never gains time, and when no carry was lost it is exact.
SetNotAhead ==
  op = "set" /\ pos = N + 1 =>
    /\ NotAfter(regs, due)
    /\ ~slipped => regs = due

\* In 24-hour mode and outside RTC_ALM_SET, which changes the two alarm
\* registers one after the other with the alarm enabled, the alarm goes off at
\* the time last asked for and at no other, and it does go off when an idle
\* clock reaches it.  RTC_ALM_SET does not choose the mode: only a reading or
\* a setting of the time does, however long after.
AlarmRight ==
  [][mode24 /\ op # "arm" /\ asked.set =>
       /\ ~flag /\ flag' => Reached(regs', asked)
       /\ (/\ op = "idle" /\ regs'[Minutes] # regs[Minutes]
           /\ Reached(regs', asked)) => flag']_vars

\* Whatever calls follow each other, an alarm that nobody has read is erased
\* only if it went off inside the clear handler, between the look that found
\* an earlier one and the write back of RX8025_SET_CONTROL2_CTFG.
LostOnlyInClear == [][flag /\ ~flag' => unseen # "early"]_vars
========================================================================
