-------------------------- MODULE Rx8025Proofs --------------------------
(***************************************************************************)
(* Proofs about Rx8025 for every number of fields and every range of them. *)
(*                                                                         *)
(* A reading is compared with the clock through the time it would return   *)
(* if the clock stood still from now on (Reading): a tick leaves it alone  *)
(* or moves it on, and taking a field does not change it.  A setting is    *)
(* compared through the time it would leave if the clock stood still       *)
(* (Leaving): a tick moves it on as it moves the time that was set, or     *)
(* carries into a field not yet written, and then only sets it back.       *)
(***************************************************************************)
EXTENDS Rx8025, TLAPS

Reading == [i \in Fields |-> IF i < pos THEN tm[i] ELSE regs[i]]
Leaving == [i \in Fields |-> IF i < pos THEN regs[i] ELSE arg[i]]

ModeInv == op \in {"get", "set"} /\ pos >= 1 => mode24

ReadInv ==
  op = "get" /\ pos >= 1 =>
    /\ NotAfter(start, Reading)
    /\ \A i \in Fields : i > carry => Reading[i] = regs[i]
    /\ carry <= 1 => Reading[1] <= regs[1]

SetInv ==
  /\ slipped => Setting
  /\ Setting => /\ NotAfter(Leaving, due)
                /\ ~slipped => Leaving = due

\* RTC_ALM_SET writes minute, hour and enable bit in this order, and only it.
AlarmInv ==
  /\ asked.set => dale
  /\ asked.set /\ op # "arm" => alm.min = asked.min /\ alm.hour = asked.hour
  /\ op = "arm" => /\ pos \in 1..3
                   /\ pos > 1 => alm.min = arg[Minutes]
                   /\ pos > 2 => alm.hour = arg[Hours]

\* A clear past its looks has found the flag, and since then the alarm has
\* gone off late or not at all.
ClearInv ==
  op = "clear" => /\ pos \in 0..3
                  /\ pos >= 2 => flag /\ unseen # "early"

------------------------------------------------------------------------
(* Times and counting. *)

\* A time is a natural number in every field, within the field's range.
LEMMA TimesDef ==
  \A t : t \in Times <=> /\ t \in [Fields -> Nat]
                         /\ \A i \in Fields : First[i] <= t[i] /\ t[i] <= Last[i]
<1> SUFFICES ASSUME NEW t
             PROVE  t \in Times <=>
                      /\ t \in [Fields -> Nat]
                      /\ \A i \in Fields : First[i] <= t[i] /\ t[i] <= Last[i]
    OBVIOUS
<1>1. ASSUME t \in Times
      PROVE  /\ t \in [Fields -> Nat]
             /\ \A i \in Fields : First[i] <= t[i] /\ t[i] <= Last[i]
  <2>1. t \in [Fields -> UNION {First[i]..Last[i] : i \in Fields}]
        BY <1>1 DEF Times
  <2>2. \A x \in UNION {First[i]..Last[i] : i \in Fields} : x \in Nat
        BY FieldsAssumption
  <2> QED BY <1>1, <2>1, <2>2 DEF Times
<1>2. ASSUME t \in [Fields -> Nat],
             \A i \in Fields : First[i] <= t[i] /\ t[i] <= Last[i]
      PROVE  t \in Times
  <2>1. ASSUME NEW i \in Fields
        PROVE  t[i] \in UNION {First[k]..Last[k] : k \in Fields}
    <3>1. t[i] \in First[i]..Last[i] BY <1>2, FieldsAssumption
    <3> QED BY <3>1
  <2>2. t \in [Fields -> UNION {First[i]..Last[i] : i \in Fields}]
        BY <1>2, <2>1
  <2> QED BY <1>2, <2>2 DEF Times
<1> QED BY <1>1, <1>2

LEMMA FirstIsTime == First \in Times
BY TimesDef, FieldsAssumption

LEMMA FieldNumbers == /\ 1 \in Fields /\ Minutes \in Fields /\ Hours \in Fields
                      /\ N \in Nat
                      /\ \A i : i \in Fields <=> i \in Nat /\ 1 <= i /\ i <= N
BY FieldsAssumption DEF Fields, Minutes, Hours

\* Counting on by a carry into a field that is not full yields a time.
LEMMA CarriedIsTime ==
  ASSUME NEW t \in Times, NEW i \in Fields, CarriesInto(t, i)
  PROVE  Carried(t, i) \in Times
<1>1. t \in [Fields -> Nat] /\ \A j \in Fields : First[j] <= t[j] /\ t[j] <= Last[j]
      BY TimesDef
<1>2. /\ First \in [Fields -> Nat] /\ Last \in [Fields -> Nat]
      /\ \A j \in Fields : First[j] <= Last[j]
      BY FieldsAssumption
<1>3. Carried(t, i) \in [Fields -> Nat] BY <1>1, <1>2, FieldNumbers DEF Carried
<1>4. \A j \in Fields : First[j] <= Carried(t, i)[j] /\ Carried(t, i)[j] <= Last[j]
      BY <1>1, <1>2, FieldNumbers DEF Carried, CarriesInto
<1> QED BY <1>3, <1>4, TimesDef

LEMMA NotAfterRefl == ASSUME NEW t \in [Fields -> Nat] PROVE NotAfter(t, t)
BY FieldNumbers DEF NotAfter

\* If only a carry happens to b in field i, and the fields below i are
\* anything, a time not after b is not after the result.
LEMMA LaterByCarry ==
  ASSUME NEW a \in [Fields -> Nat], NEW b \in [Fields -> Nat],
         NEW c \in [Fields -> Nat], NEW i \in Fields,
         NotAfter(a, b), c[i] = b[i] + 1,
         \A j \in Fields : j > i => c[j] = b[j]
  PROVE  NotAfter(a, c)
<1> SUFFICES ASSUME NEW x \in Fields, a[x] > c[x]
             PROVE  \E j \in x+1..N : a[j] < c[j]
    BY DEF NotAfter
<1>1. \A y \in Fields : a[y] > b[y] => \E j \in y+1..N : a[j] < b[j]
      BY DEF NotAfter
<1>2. CASE x > i
  <2>1. a[x] > b[x] BY <1>2
  <2>2. PICK j \in x+1..N : a[j] < b[j] BY <1>1, <2>1
  <2>3. j \in Fields /\ j > i BY <1>2, <2>2, FieldNumbers
  <2> QED BY <2>2, <2>3
<1>3. CASE x <= i /\ a[i] > b[i]
  <2>1. PICK j \in i+1..N : a[j] < b[j] BY <1>1, <1>3
  <2>2. j \in Fields /\ j > i /\ j \in x+1..N BY <1>3, <2>1, FieldNumbers
  <2> QED BY <2>1, <2>2
<1>4. CASE x <= i /\ ~(a[i] > b[i])
  <2>1. a[i] < c[i] BY <1>4, FieldNumbers
  <2>2. x # i BY <2>1
  <2>3. i \in x+1..N BY <1>4, <2>2, FieldNumbers
  <2> QED BY <2>1, <2>3
<1> QED BY <1>2, <1>3, <1>4, FieldNumbers

\* Counting on keeps the order.
LEMMA CountingKeepsOrder ==
  ASSUME NEW a \in Times, NEW b \in Times, NEW i \in Fields, NEW k \in Fields,
         NotAfter(a, b), CarriesInto(a, i), CarriesInto(b, k)
  PROVE  NotAfter(Carried(a, i), Carried(b, k))
<1> DEFINE c == Carried(a, i)
           d == Carried(b, k)
<1> SUFFICES ASSUME NEW x \in Fields, c[x] > d[x]
             PROVE  \E j \in x+1..N : c[j] < d[j]
    BY DEF NotAfter
<1>0. /\ a \in [Fields -> Nat] /\ b \in [Fields -> Nat]
      /\ First \in [Fields -> Nat] /\ Last \in [Fields -> Nat]
      /\ \A j \in Fields : a[j] <= Last[j] /\ b[j] <= Last[j] /\ First[j] <= b[j]
      BY TimesDef, FieldsAssumption
<1>1. \A y \in Fields : a[y] > b[y] => \E j \in y+1..N : a[j] < b[j]
      BY DEF NotAfter
<1>2. \A j \in Fields : c[j] = IF j < i THEN First[j] ELSE IF j = i THEN a[i] + 1 ELSE a[j]
      BY DEF Carried
<1>3. \A j \in Fields : d[j] = IF j < k THEN First[j] ELSE IF j = k THEN b[k] + 1 ELSE b[j]
      BY DEF Carried
<1>4. /\ a[i] < Last[i] /\ \A j \in Fields : j < i => a[j] = Last[j]
      /\ b[k] < Last[k] /\ \A j \in Fields : j < k => b[j] = Last[j]
      BY FieldNumbers DEF CarriesInto
<1> HIDE DEF c, d
<1>5. ASSUME NEW y \in Fields, y >= x, y >= i, y >= k, a[y] > b[y]
      PROVE  \E j \in x+1..N : c[j] < d[j]
  <2>1. PICK j \in y+1..N : a[j] < b[j] BY <1>1, <1>5
  <2>2. j \in Fields /\ j > i /\ j > k /\ j \in x+1..N BY <1>5, <2>1, FieldNumbers
  <2>3. c[j] = a[j] /\ d[j] = b[j] BY <1>2, <1>3, <2>2, FieldNumbers
  <2> QED BY <2>1, <2>2, <2>3
<1>6. CASE x < k
  <2>1. CASE i > k
    <3>1. c[k] = First[k] /\ d[k] = b[k] + 1 BY <1>2, <1>3, <2>1, FieldNumbers
    <3>2. k \in x+1..N /\ c[k] < d[k] BY <1>0, <1>6, <3>1, FieldNumbers
    <3> QED BY <3>2
  <2>2. CASE i = k
    <3>1. c[x] = First[x] /\ d[x] = First[x] BY <1>2, <1>3, <1>6, <2>2, FieldNumbers
    <3> QED BY <1>0, <3>1
  <2>3. CASE i < k
    <3>1. c[k] = a[k] /\ d[k] = b[k] + 1 BY <1>2, <1>3, <2>3, FieldNumbers
    <3>2. CASE a[k] > b[k] BY <1>5, <1>6, <2>3, <3>2, FieldNumbers
    <3>3. CASE ~(a[k] > b[k])
      <4>1. k \in x+1..N /\ c[k] < d[k] BY <1>0, <1>6, <3>1, <3>3, FieldNumbers
      <4> QED BY <4>1
    <3> QED BY <3>2, <3>3
  <2> QED BY <2>1, <2>2, <2>3, FieldNumbers
<1>7. CASE x = k
  <2>1. d[k] = b[k] + 1 BY <1>3, FieldNumbers
  <2>2. ~(i > k)
    <3>1. ASSUME i > k PROVE c[k] = First[k] BY <1>2, <3>1
    <3> QED BY <1>0, <1>7, <2>1, <3>1
  <2>3. a[k] > b[k] BY <1>0, <1>2, <1>7, <2>1, <2>2, FieldNumbers
  <2> QED BY <1>5, <1>7, <2>2, <2>3, FieldNumbers
<1>8. CASE x > k
  <2>1. d[x] = b[x] BY <1>3, <1>8, FieldNumbers
  <2>2. ~(i > x)
    <3>1. ASSUME i > x PROVE c[x] = First[x] BY <1>2, <3>1
    <3> QED BY <1>0, <2>1, <3>1
  <2>3. CASE a[x] > b[x] BY <1>5, <1>8, <2>2, <2>3, FieldNumbers
  <2>4. CASE ~(a[x] > b[x])
    <3>1. i = x BY <1>0, <1>2, <2>1, <2>2, <2>4, FieldNumbers
    <3>2. a[k] > b[k] BY <1>0, <1>4, <1>8, <3>1
    <3>3. PICK j \in k+1..N : a[j] < b[j] BY <1>1, <3>2
    <3>4. j \in Fields BY <3>3, FieldNumbers
    <3>5. j > x
      <4>1. ASSUME j < x PROVE FALSE
        <5>1. a[j] = Last[j] BY <1>4, <3>1, <3>4, <4>1
        <5> QED BY <1>0, <3>3, <3>4, <5>1
      <4>2. ASSUME j = x PROVE j > x
        <5>1. a[x] + 1 > b[x] /\ a[x] < b[x]
              BY <1>2, <2>1, <3>1, <3>3, <4>2, FieldNumbers
        <5> QED BY <1>0, <5>1
      <4> QED BY <4>1, <4>2, <3>4, FieldNumbers
    <3>6. c[j] = a[j] /\ d[j] = b[j] BY <1>2, <1>3, <1>8, <3>1, <3>4, <3>5, FieldNumbers
    <3> QED BY <3>3, <3>4, <3>5, <3>6, FieldNumbers
  <2> QED BY <2>3, <2>4
<1> QED BY <1>6, <1>7, <1>8, FieldNumbers

------------------------------------------------------------------------
(* Type correctness, the parts of TypeOK by kind. *)

TypeTimes == /\ regs \in Times /\ arg \in Times /\ tm \in Times
             /\ start \in Times /\ due \in Times
TypeFlags == /\ mode24 \in BOOLEAN /\ dale \in BOOLEAN /\ flag \in BOOLEAN
             /\ slipped \in BOOLEAN /\ unseen \in {"no", "early", "late"}
TypeCall == /\ op \in {"idle", "get", "set", "arm", "clear"}
            /\ pos \in 0..N+1 /\ carry \in 0..N
TypeAlarms == alm \in Alarms /\ asked \in Alarms

LEMMA TypeParts == TypeOK <=> TypeTimes /\ TypeFlags /\ TypeCall /\ TypeAlarms
BY Zenon DEF TypeOK, TypeTimes, TypeFlags, TypeCall, TypeAlarms

LEMMA TypePartsNext ==
  TypeOK' <=> TypeTimes' /\ TypeFlags' /\ TypeCall' /\ TypeAlarms'
BY Zenon DEF TypeOK, TypeTimes, TypeFlags, TypeCall, TypeAlarms

LEMMA TypeInit == Init => TypeOK
<1> SUFFICES ASSUME Init PROVE TypeOK
    OBVIOUS
<1>1. TypeTimes BY FirstIsTime DEF Init, TypeTimes
<1>2. TypeFlags BY Zenon DEF Init, TypeFlags
<1>3. TypeCall BY FieldNumbers DEF Init, TypeCall
<1>4. TypeAlarms BY DEF Init, TypeAlarms, NoAlarm, Alarms
<1> QED BY <1>1, <1>2, <1>3, <1>4, TypeParts

LEMMA TypeGoesOff ==
  ASSUME TypeOK, NEW now \in BOOLEAN, GoesOff(now)
  PROVE  flag' \in BOOLEAN /\ unseen' \in {"no", "early", "late"}
BY Zenon DEF TypeOK, GoesOff

LEMMA TypeTick == TypeOK /\ Tick => TypeOK'
<1> SUFFICES ASSUME TypeOK, Tick PROVE TypeOK'
    OBVIOUS
<1>1. PICK i \in Fields :
        /\ mode24 /\ CarriesInto(regs, i)
        /\ regs' = Carried(regs, i)
        /\ GoesOff(Rings(regs', i))
        /\ carry' = IF op = "get" /\ i > carry THEN i ELSE carry
        /\ IF Setting
             THEN \E k \in Fields : CarriesInto(due, k) /\ due' = Carried(due, k)
             ELSE due' = due
        /\ slipped' = (slipped \/ (Setting /\ i >= pos))
        /\ UNCHANGED <<mode24, dale, alm, call, start, asked>>
      BY Zenon DEF Tick
<1>2. regs' \in Times BY <1>1, CarriedIsTime DEF TypeOK
<1>3. due' \in Times
  <2>1. CASE Setting
    <3>1. PICK k \in Fields : CarriesInto(due, k) /\ due' = Carried(due, k)
          BY <1>1, <2>1
    <3> QED BY <3>1, CarriedIsTime DEF TypeOK
  <2>2. CASE ~Setting BY <1>1, <2>2 DEF TypeOK
  <2> QED BY <2>1, <2>2
<1>4. carry' \in 0..N BY <1>1, FieldNumbers DEF TypeOK
<1>5. flag' \in BOOLEAN /\ unseen' \in {"no", "early", "late"}
  <2>1. Rings(regs', i) \in BOOLEAN BY DEF TypeOK, Rings, Reached
  <2> QED BY <1>1, <2>1, TypeGoesOff
<1>6. slipped' \in BOOLEAN BY <1>1, Zenon DEF TypeOK
<1> QED BY <1>1, <1>2, <1>3, <1>4, <1>5, <1>6 DEF TypeOK, call

LEMMA TypeTick12 == TypeOK /\ Tick12 => TypeOK'
<1> SUFFICES ASSUME TypeOK, Tick12 PROVE TypeOK'
    OBVIOUS
<1>1. PICK now \in {FALSE, dale} : GoesOff(now) BY DEF Tick12
<1>2. now \in BOOLEAN BY DEF TypeOK
<1>3. flag' \in BOOLEAN /\ unseen' \in {"no", "early", "late"}
      BY <1>1, <1>2, TypeGoesOff
<1> QED BY <1>3 DEF Tick12, TypeOK, call

\* Storing a field of one time into another gives a time.
LEMMA StoreIsTime ==
  ASSUME NEW a \in Times, NEW b \in Times, NEW p \in Fields
  PROVE  [a EXCEPT ![p] = b[p]] \in Times
BY TimesDef

LEMMA TypeDriver ==
  ASSUME TypeOK,
         \/ RX8025_rtc_read_time \/ RX8025_rtc_set_time \/ Ensure24
         \/ RX8025_get_Time \/ RX8025_Time_set \/ Return
  PROVE  TypeOK'
<1>1. CASE RX8025_rtc_read_time
      BY <1>1, FirstIsTime, FieldNumbers DEF RX8025_rtc_read_time, Begin, TypeOK, chip, hist
<1>2. CASE RX8025_rtc_set_time
      BY <1>2, FieldNumbers DEF RX8025_rtc_set_time, Begin, TypeOK, chip, hist
<1>3. CASE Ensure24
      BY <1>3, FieldNumbers DEF Ensure24, TypeOK
<1>4. CASE RX8025_get_Time
  <2>1. tm' \in Times BY <1>4, StoreIsTime DEF RX8025_get_Time, TypeOK
  <2>2. pos' \in 0..N+1 BY <1>4, FieldNumbers DEF RX8025_get_Time, TypeOK
  <2> QED BY <1>4, <2>1, <2>2 DEF RX8025_get_Time, TypeOK, chip, hist
<1>5. CASE RX8025_Time_set
  <2>1. regs' \in Times BY <1>5, StoreIsTime DEF RX8025_Time_set, TypeOK
  <2>2. pos' \in 0..N+1 BY <1>5, FieldNumbers DEF RX8025_Time_set, TypeOK
  <2> QED BY <1>5, <2>1, <2>2 DEF RX8025_Time_set, TypeOK
<1>6. CASE Return
  <2>1. TypeTimes' BY <1>6, FirstIsTime, TypeParts DEF Return, TypeTimes, chip
  <2>2. TypeFlags' BY <1>6, TypeParts, Zenon DEF Return, TypeFlags, chip
  <2>3. TypeCall' BY <1>6, FieldNumbers DEF Return, TypeCall
  <2>4. TypeAlarms' BY <1>6, TypeParts DEF Return, TypeAlarms, chip
  <2> QED BY <2>1, <2>2, <2>3, <2>4, TypePartsNext
<1> QED BY <1>1, <1>2, <1>3, <1>4, <1>5, <1>6

LEMMA TypeAlarm ==
  ASSUME TypeOK,
         \/ RX8025_rtc_setalarm \/ RX8025_INTA_OutIrq_set
         \/ RX8025_set_store \/ RX8025_Look \/ RX8025_SET_CONTROL2_CTFG
         \/ RX8025_get_show
  PROVE  TypeOK'
<1>1. CASE RX8025_rtc_setalarm
      BY <1>1, FieldNumbers, FieldsAssumption DEF RX8025_rtc_setalarm, Begin, TypeOK, chip, hist
<1>2. CASE RX8025_INTA_OutIrq_set
  <2>1. arg[Minutes] \in Nat /\ arg[Hours] \in Nat BY TimesDef, FieldNumbers DEF TypeOK
  <2>2. TypeAlarms'
    <3>1. alm \in Alarms /\ asked \in Alarms BY DEF TypeOK
    <3>2. /\ [alm EXCEPT !.min = arg[Minutes]] \in Alarms
          /\ [alm EXCEPT !.hour = arg[Hours]] \in Alarms
          /\ [set |-> TRUE, min |-> arg[Minutes], hour |-> arg[Hours]] \in Alarms
          BY <2>1, <3>1 DEF Alarms
    <3> QED BY <1>2, <3>1, <3>2, Zenon DEF RX8025_INTA_OutIrq_set, TypeAlarms
  <2>3. TypeTimes' BY <1>2, FirstIsTime DEF RX8025_INTA_OutIrq_set, TypeOK, TypeTimes
  <2>4. TypeFlags' BY <1>2, Zenon DEF RX8025_INTA_OutIrq_set, TypeOK, TypeFlags
  <2>5. TypeCall' BY <1>2, FieldNumbers, FieldsAssumption
                  DEF RX8025_INTA_OutIrq_set, TypeOK, TypeCall
  <2> QED BY <2>2, <2>3, <2>4, <2>5, TypePartsNext
<1>3. CASE RX8025_set_store
      BY <1>3, FirstIsTime, FieldNumbers DEF RX8025_set_store, Begin, TypeOK, chip, hist
<1>4. CASE RX8025_Look
  <2>1. TypeTimes' BY <1>4, TypeParts DEF RX8025_Look, TypeTimes, chip
  <2>2. TypeFlags' BY <1>4, TypeParts, Zenon DEF RX8025_Look, TypeFlags, chip
  <2>3. TypeCall' BY <1>4, FieldNumbers, FieldsAssumption, TypeParts
                  DEF RX8025_Look, TypeCall
  <2>4. TypeAlarms' BY <1>4, TypeParts DEF RX8025_Look, TypeAlarms, chip
  <2> QED BY <2>1, <2>2, <2>3, <2>4, TypePartsNext
<1>5. CASE RX8025_SET_CONTROL2_CTFG
  <2>1. TypeTimes' BY <1>5, TypeParts DEF RX8025_SET_CONTROL2_CTFG, TypeTimes
  <2>2. TypeFlags' BY <1>5, TypeParts, Zenon DEF RX8025_SET_CONTROL2_CTFG, TypeFlags
  <2>3. TypeCall' BY <1>5, FieldNumbers, FieldsAssumption, TypeParts
                  DEF RX8025_SET_CONTROL2_CTFG, TypeCall
  <2>4. TypeAlarms' BY <1>5, TypeParts DEF RX8025_SET_CONTROL2_CTFG, TypeAlarms
  <2> QED BY <2>1, <2>2, <2>3, <2>4, TypePartsNext
<1>6. CASE RX8025_get_show
      BY <1>6 DEF RX8025_get_show, TypeOK, chip, call
<1> QED BY <1>1, <1>2, <1>3, <1>4, <1>5, <1>6

LEMMA TypeStep == TypeOK /\ [Next]_vars => TypeOK'
<1> SUFFICES ASSUME TypeOK, [Next]_vars PROVE TypeOK'
    OBVIOUS
<1>1. CASE UNCHANGED vars BY <1>1 DEF vars, chip, call, hist, TypeOK
<1> QED BY <1>1, TypeTick, TypeTick12, TypeDriver, TypeAlarm DEF Next

\* The registers, the call and the bytes it has stay well formed, for any
\* fields and ranges (RX8025_get_Time and RX8025_Time_set stop at the last).
THEOREM TypeCorrect == Spec => []TypeOK
BY TypeInit, TypeStep, PTL DEF Spec

------------------------------------------------------------------------
(* Torn readings. *)

LEMMA ModeStep == TypeOK /\ ModeInv /\ [Next]_vars => ModeInv'
<1> SUFFICES ASSUME TypeOK, ModeInv, [Next]_vars PROVE ModeInv'
    OBVIOUS
<1>1. op \in {"idle", "get", "set", "arm", "clear"} /\ pos \in Nat
      BY FieldNumbers DEF TypeOK
<1>2. CASE Ensure24 BY <1>2 DEF Ensure24, ModeInv
<1>3. CASE RX8025_get_Time \/ RX8025_Time_set
      BY <1>1, <1>3, FieldNumbers DEF RX8025_get_Time, RX8025_Time_set, ModeInv, chip
<1>4. CASE Tick \/ Tick12
      BY <1>4, Zenon DEF Tick, Tick12, ModeInv, call
<1>5. CASE \/ RX8025_rtc_read_time \/ RX8025_rtc_set_time \/ Return
           \/ RX8025_rtc_setalarm \/ RX8025_set_store
      BY <1>5 DEF RX8025_rtc_read_time, RX8025_rtc_set_time, Return, RX8025_rtc_setalarm,
                  RX8025_set_store, Begin, ModeInv
<1>6. CASE \/ RX8025_INTA_OutIrq_set \/ RX8025_Look \/ RX8025_SET_CONTROL2_CTFG
      BY <1>6 DEF RX8025_INTA_OutIrq_set, RX8025_Look, RX8025_SET_CONTROL2_CTFG, ModeInv
<1>7. CASE RX8025_get_show \/ UNCHANGED vars
      BY <1>7 DEF RX8025_get_show, vars, chip, call, ModeInv
<1> QED BY <1>2, <1>3, <1>4, <1>5, <1>6, <1>7 DEF Next

\* A call other than a reading under way keeps ReadInv.
LEMMA ReadOther ==
  ASSUME op' # "get" \/ pos' = 0
  PROVE  ReadInv'
BY DEF ReadInv

\* A step that leaves the reading and the clock alone keeps ReadInv.
LEMMA ReadSame ==
  ASSUME ReadInv, UNCHANGED <<op, pos, tm, regs, start, carry>>
  PROVE  ReadInv'
BY DEF ReadInv, Reading, NotAfter

LEMMA ReadTick ==
  ASSUME TypeOK, ReadInv, Tick
  PROVE  ReadInv'
<1> SUFFICES ASSUME op' = "get", pos' >= 1 PROVE ReadInv'
    BY DEF ReadInv
<1>1. PICK i \in Fields :
        /\ CarriesInto(regs, i) /\ regs' = Carried(regs, i)
        /\ carry' = IF op = "get" /\ i > carry THEN i ELSE carry
        /\ UNCHANGED <<call, start>>
      BY Zenon DEF Tick
<1>2. op = "get" /\ pos >= 1 /\ op' = op /\ pos' = pos /\ tm' = tm /\ start' = start
      BY <1>1 DEF call
<1>3. /\ NotAfter(start, Reading)
      /\ \A j \in Fields : j > carry => Reading[j] = regs[j]
      /\ carry <= 1 => Reading[1] <= regs[1]
      BY <1>2 DEF ReadInv
<1>4. /\ regs \in [Fields -> Nat] /\ tm \in [Fields -> Nat] /\ start \in [Fields -> Nat]
      /\ regs' \in [Fields -> Nat]
      BY <1>1, CarriedIsTime, TimesDef DEF TypeOK
<1>5. carry \in Nat /\ carry' \in Nat /\ carry' >= carry /\ carry' >= i /\ pos \in Nat
      BY <1>1, <1>2, FieldNumbers DEF TypeOK
<1>6. \A j \in Fields : regs'[j] = IF j < i THEN First[j] ELSE IF j = i THEN regs[i] + 1 ELSE regs[j]
      BY <1>1 DEF Carried
<1>7. \A j \in Fields : /\ Reading[j] = IF j < pos THEN tm[j] ELSE regs[j]
                        /\ Reading'[j] = IF j < pos THEN tm[j] ELSE regs'[j]
      BY <1>2 DEF Reading
<1>8. Reading \in [Fields -> Nat] /\ Reading' \in [Fields -> Nat]
      BY <1>2, <1>4 DEF Reading
<1>9. NotAfter(start, Reading')
  <2>1. CASE i < pos
    <3>1. \A j \in Fields : Reading'[j] = Reading[j]
          BY <1>5, <1>6, <1>7, <2>1, FieldNumbers
    <3>2. Reading' = Reading BY <1>8, <3>1
    <3> QED BY <1>3, <3>2
  <2>2. CASE i >= pos
    <3>1. Reading'[i] = Reading[i] + 1 BY <1>5, <1>6, <1>7, <2>2, FieldNumbers
    <3>2. \A j \in Fields : j > i => Reading'[j] = Reading[j]
          BY <1>5, <1>6, <1>7, <2>2, FieldNumbers
    <3> QED BY <1>3, <1>4, <1>8, <3>1, <3>2, LaterByCarry
  <2> QED BY <1>5, <2>1, <2>2, FieldNumbers
<1>10. ASSUME NEW j \in Fields, j > carry' PROVE Reading'[j] = regs'[j]
  <2>1. j > i /\ j > carry BY <1>5, <1>10, FieldNumbers
  <2> QED BY <1>3, <1>6, <1>7, <2>1, FieldNumbers
<1>11. ASSUME carry' <= 1 PROVE Reading'[1] <= regs'[1]
  <2>1. i = 1 /\ carry <= 1 BY <1>5, <1>11, FieldNumbers
  <2>2. Reading[1] <= regs[1] BY <1>3, <2>1
  <2>3. regs'[1] = regs[1] + 1 BY <1>6, <2>1, FieldNumbers
  <2>4. Reading'[1] = regs'[1] \/ Reading'[1] = Reading[1]
        BY <1>7, FieldNumbers
  <2> QED BY <1>4, <1>8, <2>2, <2>3, <2>4, FieldNumbers
<1> QED BY <1>2, <1>9, <1>10, <1>11 DEF ReadInv, NotAfter

LEMMA ReadField ==
  ASSUME TypeOK, ReadInv, RX8025_get_Time
  PROVE  ReadInv'
<1>1. /\ op = "get" /\ pos \in Fields /\ pos' = pos + 1
      /\ tm' = [tm EXCEPT ![pos] = regs[pos]]
      /\ UNCHANGED <<regs, start, carry>>
      BY DEF RX8025_get_Time, chip, hist
<1>2. tm \in [Fields -> Nat] BY TimesDef DEF TypeOK
<1>3. \A j \in Fields : (IF j < pos' THEN tm'[j] ELSE regs'[j])
                        = (IF j < pos THEN tm[j] ELSE regs[j])
      BY <1>1, <1>2, FieldNumbers
<1>4. Reading' = Reading BY <1>3 DEF Reading
<1> QED BY <1>1, <1>4, FieldNumbers DEF ReadInv, NotAfter

LEMMA ReadBegins ==
  ASSUME TypeOK, Ensure24
  PROVE  ReadInv'
<1> SUFFICES ASSUME op' = "get" PROVE ReadInv'
    BY ReadOther
<1>1. op = "get" /\ pos' = 1 /\ start' = regs /\ UNCHANGED <<regs, tm, carry>>
      BY DEF Ensure24
<1>2. regs \in [Fields -> Nat] BY TimesDef DEF TypeOK
<1>3. \A j \in Fields : (IF j < pos' THEN tm'[j] ELSE regs'[j]) = regs[j]
      BY <1>1, FieldNumbers
<1>4. Reading' = regs BY <1>2, <1>3 DEF Reading
<1>5. NotAfter(start', Reading') BY <1>1, <1>2, <1>4, NotAfterRefl
<1>6. Reading'[1] <= regs'[1] BY <1>1, <1>2, <1>4, FieldNumbers
<1> QED BY <1>1, <1>4, <1>5, <1>6 DEF ReadInv, NotAfter

LEMMA ReadStep == TypeOK /\ ModeInv /\ ReadInv /\ [Next]_vars => ReadInv'
<1> SUFFICES ASSUME TypeOK, ModeInv, ReadInv, [Next]_vars PROVE ReadInv'
    OBVIOUS
<1>1. CASE Tick BY <1>1, ReadTick
<1>2. CASE Tick12
  <2>1. ~(op = "get" /\ pos >= 1) BY <1>2 DEF Tick12, ModeInv
  <2>2. op' = op /\ pos' = pos BY <1>2 DEF Tick12, call
  <2> QED BY <2>1, <2>2 DEF ReadInv
<1>3. CASE Ensure24 BY <1>3, ReadBegins
<1>4. CASE RX8025_get_Time BY <1>4, ReadField
<1>5. CASE \/ RX8025_rtc_read_time \/ RX8025_rtc_set_time \/ RX8025_Time_set \/ Return
           \/ RX8025_rtc_setalarm \/ RX8025_set_store
  <2>1. op' # "get" \/ pos' = 0
        BY <1>5 DEF RX8025_rtc_read_time, RX8025_rtc_set_time, RX8025_Time_set, Return,
                    RX8025_rtc_setalarm, RX8025_set_store, Begin
  <2> QED BY <2>1, ReadOther
<1>6. CASE RX8025_INTA_OutIrq_set \/ RX8025_Look \/ RX8025_SET_CONTROL2_CTFG
  <2>1. op' # "get"
        BY <1>6 DEF RX8025_INTA_OutIrq_set, RX8025_Look, RX8025_SET_CONTROL2_CTFG
  <2> QED BY <2>1, ReadOther
<1>7. CASE RX8025_get_show \/ UNCHANGED vars
      BY <1>7, ReadSame DEF RX8025_get_show, vars, chip, call, hist
<1> QED BY <1>1, <1>2, <1>3, <1>4, <1>5, <1>6, <1>7 DEF Next

LEMMA ReadAlways == Spec => [](ModeInv /\ ReadInv)
<1>1. Init => ModeInv /\ ReadInv BY DEF Init, ModeInv, ReadInv
<1> QED BY <1>1, TypeCorrect, ModeStep, ReadStep, PTL DEF Spec

\* A reading of the seven registers, one transfer each, is never earlier than
\* the clock was when RX8025_get_Time began, for any fields and ranges.
THEOREM ReadingsNotBehind == Spec => []ReadNotBehind
<1>1. ASSUME TypeOK, ReadInv PROVE ReadNotBehind
  <2> SUFFICES ASSUME op = "get", pos = N + 1 PROVE NotAfter(start, tm)
      BY DEF ReadNotBehind
  <2>1. NotAfter(start, Reading) BY <1>1, FieldNumbers DEF ReadInv
  <2>2. \A j \in Fields : (IF j < pos THEN tm[j] ELSE regs[j]) = tm[j]
        BY FieldNumbers
  <2>3. tm \in [Fields -> Nat] BY <1>1, TimesDef DEF TypeOK
  <2>4. Reading = tm BY <2>2, <2>3 DEF Reading
  <2> QED BY <2>1, <2>4
<1> QED BY <1>1, TypeCorrect, ReadAlways, PTL

\* A torn reading is right above the highest carry that fell into it, and not
\* ahead of the clock if there was none out of the seconds.
THEOREM ReadingsAheadOnlyByCarry == Spec => []ReadAheadOnlyByCarry
<1>1. ASSUME TypeOK, ReadInv PROVE ReadAheadOnlyByCarry
  <2> SUFFICES ASSUME op = "get", pos = N + 1
               PROVE  /\ \A i \in Fields : i > carry => tm[i] = regs[i]
                      /\ carry <= 1 => NotAfter(tm, regs)
      BY DEF ReadAheadOnlyByCarry
  <2>1. \A j \in Fields : (IF j < pos THEN tm[j] ELSE regs[j]) = tm[j]
        BY FieldNumbers
  <2>2. tm \in [Fields -> Nat] /\ regs \in [Fields -> Nat] /\ carry \in Nat
        BY <1>1, TimesDef, FieldNumbers DEF TypeOK
  <2>3. Reading = tm BY <2>1, <2>2 DEF Reading
  <2>4. /\ \A i \in Fields : i > carry => tm[i] = regs[i]
        /\ carry <= 1 => tm[1] <= regs[1]
        BY <1>1, <2>3, FieldNumbers DEF ReadInv
  <2>5. ASSUME carry <= 1 PROVE NotAfter(tm, regs)
    <3>1. \A i \in Fields : ~(tm[i] > regs[i])
          BY <2>2, <2>4, <2>5, FieldNumbers
    <3> QED BY <3>1 DEF NotAfter
  <2> QED BY <2>4, <2>5
<1> QED BY <1>1, TypeCorrect, ReadAlways, PTL

------------------------------------------------------------------------
(* Settings that lose a carry. *)

\* What a setting would leave is a time.
LEMMA LeavingIsTime == TypeOK => Leaving \in Times
BY TimesDef DEF TypeOK, Leaving

\* A carry into a field not yet written only sets the clock back.
LEMMA LostCarry ==
  ASSUME NEW a \in Times, NEW b \in Times, NEW c \in Times, NEW p \in Nat,
         NEW k \in Fields, NotAfter(a, b), CarriesInto(b, k),
         \A j \in Fields : c[j] = IF j < p THEN First[j] ELSE a[j]
  PROVE  NotAfter(c, Carried(b, k))
<1>0. /\ a \in [Fields -> Nat] /\ b \in [Fields -> Nat] /\ c \in [Fields -> Nat]
      /\ \A j \in Fields : First[j] \in Nat /\ First[j] <= b[j]
      BY TimesDef, FieldsAssumption
<1>1. NotAfter(c, b)
  <2> SUFFICES ASSUME NEW x \in Fields, c[x] > b[x]
               PROVE  \E j \in x+1..N : c[j] < b[j]
      BY DEF NotAfter
  <2>1. ~(x < p) /\ c[x] = a[x]
    <3>1. ASSUME x < p PROVE FALSE BY <1>0, <3>1
    <3> QED BY <3>1
  <2>2. PICK j \in x+1..N : a[j] < b[j] BY <2>1 DEF NotAfter
  <2>3. j \in Fields /\ ~(j < p) BY <2>1, <2>2, FieldNumbers
  <2>4. c[j] = a[j] BY <2>3
  <2> QED BY <2>2, <2>4
<1>2. Carried(b, k) \in [Fields -> Nat] BY CarriedIsTime, TimesDef
<1>3. Carried(b, k)[k] = b[k] + 1 BY FieldNumbers DEF Carried
<1>4. \A j \in Fields : j > k => Carried(b, k)[j] = b[j]
      BY FieldNumbers DEF Carried
<1> QED BY <1>0, <1>1, <1>2, <1>3, <1>4, LaterByCarry

LEMMA SetTick ==
  ASSUME TypeOK, SetInv, Tick
  PROVE  SetInv'
<1>1. PICK i \in Fields :
        /\ CarriesInto(regs, i) /\ regs' = Carried(regs, i)
        /\ IF Setting
             THEN \E k \in Fields : CarriesInto(due, k) /\ due' = Carried(due, k)
             ELSE due' = due
        /\ slipped' = (slipped \/ (Setting /\ i >= pos))
        /\ UNCHANGED call
      BY Zenon DEF Tick
<1>2. op' = op /\ pos' = pos /\ arg' = arg /\ Setting' = Setting
      BY <1>1 DEF call, Setting
<1>3. slipped' => Setting' BY <1>1, <1>2, Zenon DEF SetInv
<1> SUFFICES ASSUME Setting
             PROVE  NotAfter(Leaving', due') /\ (~slipped' => Leaving' = due')
    BY <1>2, <1>3 DEF SetInv, NotAfter
<1>4. PICK k \in Fields : CarriesInto(due, k) /\ due' = Carried(due, k)
      BY <1>1
<1>5. NotAfter(Leaving, due) /\ (~slipped => Leaving = due) BY DEF SetInv
<1>6. /\ regs \in [Fields -> Nat] /\ arg \in [Fields -> Nat]
      /\ Leaving \in Times /\ due \in Times /\ regs' \in Times /\ pos \in Nat
      BY <1>1, CarriedIsTime, LeavingIsTime, TimesDef, FieldNumbers DEF TypeOK
<1>7. \A j \in Fields : regs'[j] = IF j < i THEN First[j] ELSE IF j = i THEN regs[i] + 1 ELSE regs[j]
      BY <1>1 DEF Carried
<1>8. \A j \in Fields : /\ Leaving[j] = IF j < pos THEN regs[j] ELSE arg[j]
                        /\ Leaving'[j] = IF j < pos THEN regs'[j] ELSE arg[j]
      BY <1>2 DEF Leaving
<1>9. CASE i < pos
  <2>1. CarriesInto(Leaving, i)
        BY <1>1, <1>6, <1>8, <1>9, FieldNumbers DEF CarriesInto
  <2>2. \A j \in Fields : (IF j < pos THEN regs'[j] ELSE arg[j])
            = (IF j < i THEN First[j] ELSE IF j = i THEN Leaving[i] + 1 ELSE Leaving[j])
        BY <1>6, <1>7, <1>8, <1>9, FieldNumbers
  <2>3. Leaving' = Carried(Leaving, i) BY <1>2, <2>2 DEF Leaving, Carried
  <2>4. NotAfter(Leaving', due')
        BY <1>4, <1>5, <1>6, <2>1, <2>3, CountingKeepsOrder
  <2>5. ASSUME Leaving = due PROVE i = k
    <3>1. /\ due[i] < Last[i] /\ \A j \in Fields : j < i => due[j] = Last[j]
          /\ due[k] < Last[k] /\ \A j \in Fields : j < k => due[j] = Last[j]
          BY <1>4, <2>1, <2>5, FieldNumbers DEF CarriesInto
    <3>2. due \in [Fields -> Nat] /\ Last \in [Fields -> Nat]
          BY <1>6, TimesDef, FieldsAssumption
    <3> QED BY <3>1, <3>2, FieldNumbers
  <2>6. ~slipped' => ~slipped BY <1>1, Zenon
  <2> QED BY <1>4, <1>5, <2>3, <2>4, <2>5, <2>6
<1>10. CASE ~(i < pos)
  <2>1. \A j \in Fields : Leaving'[j] = IF j < pos THEN First[j] ELSE Leaving[j]
        BY <1>6, <1>7, <1>8, <1>10, FieldNumbers
  <2>2. Leaving' \in Times
    <3>1. /\ Leaving \in [Fields -> Nat]
          /\ \A j \in Fields : First[j] <= Leaving[j] /\ Leaving[j] <= Last[j]
          /\ \A j \in Fields : First[j] <= Last[j]
          /\ regs' \in [Fields -> Nat]
          /\ First \in [Fields -> Nat] /\ Last \in [Fields -> Nat]
          BY <1>6, TimesDef, FieldsAssumption
    <3>2. Leaving' \in [Fields -> Nat] BY <1>2, <1>6, <3>1 DEF Leaving
    <3>3. \A j \in Fields : First[j] <= Leaving'[j] /\ Leaving'[j] <= Last[j]
          BY <2>1, <3>1, FieldNumbers
    <3> QED BY <3>2, <3>3, TimesDef
  <2>3. NotAfter(Leaving', due')
        BY <1>4, <1>5, <1>6, <2>1, <2>2, LostCarry
  <2>4. i >= pos BY <1>6, <1>10, FieldNumbers
  <2>5. slipped' BY <1>1, <2>4, Zenon
  <2> QED BY <2>3, <2>5
<1> QED BY <1>9, <1>10

LEMMA SetField ==
  ASSUME TypeOK, SetInv, RX8025_Time_set
  PROVE  SetInv'
<1>1. /\ op = "set" /\ op' = "set" /\ pos \in Fields /\ pos' = pos + 1
      /\ regs' = [regs EXCEPT ![pos] = arg[pos]]
      /\ due' = IF pos = 1 THEN arg ELSE due
      /\ UNCHANGED <<arg, slipped>>
      BY DEF RX8025_Time_set
<1>2. Setting' BY <1>1, FieldNumbers DEF Setting
<1>3. regs \in [Fields -> Nat] /\ arg \in [Fields -> Nat]
      BY TimesDef DEF TypeOK
<1>4. CASE pos = 1
  <2>1. \A j \in Fields : (IF j < pos' THEN regs'[j] ELSE arg'[j]) = arg[j]
        BY <1>1, <1>3, <1>4, FieldNumbers
  <2>2. Leaving' = arg BY <1>3, <2>1 DEF Leaving
  <2>3. due' = arg BY <1>1, <1>4
  <2> QED BY <1>2, <1>3, <2>2, <2>3, NotAfterRefl DEF SetInv, NotAfter
<1>5. CASE pos # 1
  <2>1. \A j \in Fields : (IF j < pos' THEN regs'[j] ELSE arg'[j])
                          = (IF j < pos THEN regs[j] ELSE arg[j])
        BY <1>1, <1>3, FieldNumbers
  <2>2. Leaving' = Leaving BY <2>1 DEF Leaving
  <2>3. due' = due /\ slipped' = slipped BY <1>1, <1>5
  <2>4. Setting BY <1>1, <1>5, FieldNumbers DEF Setting
  <2> QED BY <1>2, <2>2, <2>3, <2>4 DEF SetInv, NotAfter
<1> QED BY <1>4, <1>5

\* A step outside a setting under way keeps SetInv.
LEMMA SetOther ==
  ASSUME SetInv, ~Setting, ~Setting', slipped' = slipped \/ ~slipped'
  PROVE  SetInv'
BY DEF SetInv

LEMMA SetStep == TypeOK /\ ModeInv /\ SetInv /\ [Next]_vars => SetInv'
<1> SUFFICES ASSUME TypeOK, ModeInv, SetInv, [Next]_vars PROVE SetInv'
    OBVIOUS
<1>1. CASE Tick BY <1>1, SetTick
<1>2. CASE RX8025_Time_set BY <1>2, SetField
<1>3. CASE Tick12
  <2>1. ~Setting BY <1>3, FieldNumbers DEF Tick12, ModeInv, Setting, TypeOK
  <2>2. op' = op /\ pos' = pos /\ slipped' = slipped BY <1>3 DEF Tick12, call
  <2> QED BY <2>1, <2>2, SetOther DEF Setting
<1>4. CASE Return
  <2>1. op' = "idle" /\ ~slipped' BY <1>4 DEF Return
  <2> QED BY <2>1 DEF SetInv, Setting
<1>5. CASE Ensure24
  <2>1. pos = 0 /\ pos' = 1 /\ slipped' = slipped BY <1>5 DEF Ensure24
  <2> QED BY <2>1, SetOther DEF Setting
<1>6. CASE RX8025_rtc_read_time \/ RX8025_rtc_set_time \/ RX8025_rtc_setalarm \/ RX8025_set_store
  <2>1. op = "idle" /\ (op' # "set" \/ pos' = 0) /\ slipped' = slipped
        BY <1>6 DEF RX8025_rtc_read_time, RX8025_rtc_set_time, RX8025_rtc_setalarm,
                    RX8025_set_store, Begin, hist
  <2> QED BY <2>1, SetOther DEF Setting
<1>7. CASE RX8025_get_Time \/ RX8025_INTA_OutIrq_set \/ RX8025_Look \/ RX8025_SET_CONTROL2_CTFG
  <2>1. op # "set" /\ op' # "set" /\ slipped' = slipped
        BY <1>7 DEF RX8025_get_Time, RX8025_INTA_OutIrq_set, RX8025_Look,
                    RX8025_SET_CONTROL2_CTFG, hist
  <2> QED BY <2>1, SetOther DEF Setting
<1>8. CASE RX8025_get_show \/ UNCHANGED vars
  <2>1. UNCHANGED <<op, pos, arg, regs, due, slipped>>
        BY <1>8 DEF RX8025_get_show, vars, chip, call, hist
  <2> QED BY <2>1 DEF SetInv, Setting, Leaving, NotAfter
<1> QED BY <1>1, <1>2, <1>3, <1>4, <1>5, <1>6, <1>7, <1>8 DEF Next

\* RX8025_Time_set never leaves the clock ahead of the time that was set and
\* has run on since, and leaves it exact if no carry was overwritten.
THEOREM SettingsNotAhead == Spec => []SetNotAhead
<1>1. Init => SetInv BY DEF Init, SetInv, Setting
<1>2. ASSUME TypeOK, SetInv PROVE SetNotAhead
  <2> SUFFICES ASSUME op = "set", pos = N + 1
               PROVE  NotAfter(regs, due) /\ (~slipped => regs = due)
      BY DEF SetNotAhead
  <2>1. Setting BY FieldsAssumption DEF Setting
  <2>2. \A j \in Fields : (IF j < pos THEN regs[j] ELSE arg[j]) = regs[j]
        BY FieldNumbers
  <2>3. regs \in [Fields -> Nat] BY <1>2, TimesDef DEF TypeOK
  <2>4. Leaving = regs BY <2>2, <2>3 DEF Leaving
  <2> QED BY <1>2, <2>1, <2>4 DEF SetInv
<1> QED BY <1>1, <1>2, TypeCorrect, ReadAlways, SetStep, PTL DEF Spec

------------------------------------------------------------------------
(* The alarm. *)

LEMMA AlarmStep == TypeOK /\ AlarmInv /\ [Next]_vars => AlarmInv'
<1> SUFFICES ASSUME TypeOK, AlarmInv, [Next]_vars PROVE AlarmInv'
    OBVIOUS
<1>1. CASE \/ Tick \/ Tick12 \/ RX8025_get_show \/ UNCHANGED vars
  <2>1. UNCHANGED <<op, pos, arg, alm, dale, asked>>
        BY <1>1, Zenon DEF Tick, Tick12, RX8025_get_show, vars, chip, call, hist
  <2> QED BY <2>1 DEF AlarmInv
<1>2. CASE \/ RX8025_rtc_read_time \/ RX8025_rtc_set_time \/ RX8025_set_store
           \/ Ensure24 \/ RX8025_get_Time \/ RX8025_Time_set \/ Return
           \/ RX8025_Look \/ RX8025_SET_CONTROL2_CTFG
  <2>1. op # "arm" /\ op' # "arm" /\ UNCHANGED <<alm, dale, asked>>
        BY <1>2 DEF RX8025_rtc_read_time, RX8025_rtc_set_time, RX8025_set_store, Begin,
                    Ensure24, RX8025_get_Time, RX8025_Time_set, Return,
                    RX8025_Look, RX8025_SET_CONTROL2_CTFG, chip, hist
  <2> QED BY <2>1 DEF AlarmInv
<1>3. CASE RX8025_rtc_setalarm
      BY <1>3 DEF RX8025_rtc_setalarm, Begin, AlarmInv, chip, hist
<1>4. CASE RX8025_INTA_OutIrq_set
  <2>1. alm = [set |-> alm.set, min |-> alm.min, hour |-> alm.hour]
        BY DEF TypeOK, Alarms
  <2>2. CASE pos = 1
    <3>1. /\ op = "arm" /\ op' = "arm" /\ pos' = 2 /\ UNCHANGED <<arg, dale, asked>>
          /\ alm'.min = arg[Minutes]
          BY <1>4, <2>1, <2>2 DEF RX8025_INTA_OutIrq_set
    <3> QED BY <3>1 DEF AlarmInv
  <2>3. CASE pos = 2
    <3>1. /\ op = "arm" /\ op' = "arm" /\ pos' = 3 /\ UNCHANGED <<arg, dale, asked>>
          /\ alm'.min = alm.min /\ alm'.hour = arg[Hours]
          BY <1>4, <2>1, <2>3 DEF RX8025_INTA_OutIrq_set
    <3> QED BY <2>3, <3>1 DEF AlarmInv
  <2>4. CASE pos = 3
    <3>1. /\ op = "arm" /\ op' = "idle" /\ dale' /\ alm' = alm
          /\ asked'.min = arg[Minutes] /\ asked'.hour = arg[Hours]
          BY <1>4, <2>4 DEF RX8025_INTA_OutIrq_set
    <3> QED BY <2>4, <3>1 DEF AlarmInv
  <2> QED BY <1>4, <2>2, <2>3, <2>4 DEF RX8025_INTA_OutIrq_set
<1> QED BY <1>1, <1>2, <1>3, <1>4 DEF Next

LEMMA ClearGoesOff ==
  ASSUME ClearInv, UNCHANGED call, NEW now \in BOOLEAN, GoesOff(now)
  PROVE  ClearInv'
<1> SUFFICES ASSUME op = "clear"
             PROVE  pos \in 0..3 /\ (pos >= 2 => flag' /\ unseen' # "early")
    BY DEF ClearInv, call
<1>1. pos \in 0..3 /\ (pos >= 2 => flag /\ unseen # "early") BY DEF ClearInv
<1>2. pos >= 2 => pos > 1 BY <1>1
<1>3. ASSUME pos >= 2 PROVE flag' /\ unseen' # "early"
      BY <1>1, <1>2, <1>3, Zenon DEF GoesOff
<1> QED BY <1>1, <1>3

LEMMA ClearStep == TypeOK /\ ClearInv /\ [Next]_vars => ClearInv'
<1> SUFFICES ASSUME TypeOK, ClearInv, [Next]_vars PROVE ClearInv'
    OBVIOUS
<1>1. CASE Tick
  <2>1. PICK i \in Fields : GoesOff(Rings(regs', i)) /\ UNCHANGED call
        BY <1>1, Zenon DEF Tick
  <2>2. Rings(regs', i) \in BOOLEAN BY DEF TypeOK, Rings, Reached
  <2> QED BY <2>1, <2>2, ClearGoesOff
<1>2. CASE Tick12
  <2>1. PICK now \in {FALSE, dale} : GoesOff(now) BY <1>2 DEF Tick12
  <2>2. now \in BOOLEAN /\ UNCHANGED call BY <1>2 DEF Tick12, TypeOK
  <2> QED BY <2>1, <2>2, ClearGoesOff
<1>3. CASE RX8025_Look
  <2>1. op = "clear" /\ pos \in 0..1 /\ flag' = flag
        BY <1>3 DEF RX8025_Look, ClearInv, chip
  <2>2. op' = "clear" => pos' = 1 \/ (pos' = 2 /\ flag)
        BY <1>3, <2>1 DEF RX8025_Look
  <2>3. flag => unseen' = "no" BY <1>3 DEF RX8025_Look
  <2> QED BY <2>1, <2>2, <2>3 DEF ClearInv
<1>4. CASE RX8025_SET_CONTROL2_CTFG
  <2>1. CASE pos = 2
    <3>1. op = "clear" /\ pos' = 3 /\ UNCHANGED <<flag, unseen>>
          BY <1>4, <2>1 DEF RX8025_SET_CONTROL2_CTFG
    <3> QED BY <2>1, <3>1 DEF ClearInv
  <2>2. CASE pos = 3
    <3>1. op' = "idle" BY <1>4, <2>2 DEF RX8025_SET_CONTROL2_CTFG
    <3> QED BY <3>1 DEF ClearInv
  <2> QED BY <1>4, <2>1, <2>2 DEF RX8025_SET_CONTROL2_CTFG
<1>5. CASE \/ RX8025_rtc_read_time \/ RX8025_rtc_set_time \/ RX8025_set_store
           \/ RX8025_rtc_setalarm \/ RX8025_INTA_OutIrq_set
           \/ Ensure24 \/ RX8025_get_Time \/ RX8025_Time_set \/ Return
  <2>1. op' # "clear" \/ pos' = 0
        BY <1>5 DEF RX8025_rtc_read_time, RX8025_rtc_set_time, RX8025_set_store, Begin,
                    RX8025_rtc_setalarm, RX8025_INTA_OutIrq_set, Ensure24,
                    RX8025_get_Time, RX8025_Time_set, Return
  <2> QED BY <2>1 DEF ClearInv
<1>6. CASE RX8025_get_show BY <1>6 DEF RX8025_get_show, ClearInv, chip, call
<1>7. CASE UNCHANGED vars BY <1>7 DEF vars, chip, call, hist, ClearInv
<1> QED BY <1>1, <1>2, <1>3, <1>4, <1>5, <1>6, <1>7 DEF Next

\* No sequence of calls erases an alarm that nobody has read, but for one that
\* goes off inside the clear handler after its looks.
THEOREM AlarmsLostOnlyInClear == Spec => LostOnlyInClear
<1>1. Init => ClearInv BY DEF Init, ClearInv
<1>2. ASSUME ClearInv, Next PROVE flag /\ ~flag' => unseen # "early"
  <2>1. CASE Tick \/ Tick12 BY <2>1, Zenon DEF Tick, Tick12, GoesOff
  <2>2. CASE RX8025_SET_CONTROL2_CTFG
    <3>1. op = "clear" /\ (pos = 2 => flag' = flag) /\ pos \in {2, 3}
          BY <2>2 DEF RX8025_SET_CONTROL2_CTFG
    <3>2. unseen # "early" BY <1>2, <3>1 DEF ClearInv
    <3> QED BY <3>2
  <2>3. CASE ~(Tick \/ Tick12 \/ RX8025_SET_CONTROL2_CTFG)
    <3>1. flag' = flag
          BY <1>2, <2>3 DEF Next, RX8025_rtc_read_time, RX8025_rtc_set_time,
             RX8025_set_store, Begin, RX8025_rtc_setalarm, RX8025_INTA_OutIrq_set,
             Ensure24, RX8025_get_Time, RX8025_Time_set, Return, RX8025_Look,
             RX8025_get_show, chip
    <3> QED BY <3>1
  <2> QED BY <2>1, <2>2, <2>3
<1>3. ClearInv /\ [Next]_vars => [flag /\ ~flag' => unseen # "early"]_vars
      BY <1>2
<1> QED BY <1>1, <1>3, ClearStep, TypeCorrect, PTL DEF Spec, LostOnlyInClear

\* In 24-hour mode and outside RTC_ALM_SET the alarm goes off at the time last
\* asked for, and at no other.
THEOREM AlarmsRight == Spec => AlarmRight
<1> DEFINE Right == mode24 /\ op # "arm" /\ asked.set =>
       /\ ~flag /\ flag' => Reached(regs', asked)
       /\ (/\ op = "idle" /\ regs'[Minutes] # regs[Minutes]
           /\ Reached(regs', asked)) => flag'
<1>1. Init => AlarmInv BY DEF Init, AlarmInv, NoAlarm
<1>2. ASSUME TypeOK, AlarmInv, Next PROVE Right
  <2> SUFFICES ASSUME mode24, op # "arm", asked.set
               PROVE  /\ ~flag /\ flag' => Reached(regs', asked)
                      /\ (/\ op = "idle" /\ regs'[Minutes] # regs[Minutes]
                          /\ Reached(regs', asked)) => flag'
      OBVIOUS
  <2>1. dale /\ (Reached(regs', alm) <=> Reached(regs', asked))
        BY <1>2 DEF AlarmInv, Reached
  <2>2. CASE Tick
    <3>1. PICK i \in Fields : /\ regs' = Carried(regs, i)
                              /\ flag' = (flag \/ Rings(regs', i))
          BY <2>2, Zenon DEF Tick, GoesOff
    <3>2. regs \in [Fields -> Nat] BY <1>2, TimesDef DEF TypeOK
    <3>3. regs'[Minutes] # regs[Minutes] => i >= Minutes
          BY <3>1, <3>2, FieldNumbers DEF Carried, Minutes
    <3>4. Rings(regs', i) <=> i >= Minutes /\ Reached(regs', asked)
          BY <2>1, Zenon DEF Rings
    <3> QED BY <3>1, <3>3, <3>4, Zenon
  <2>3. CASE Tick12 BY <2>3 DEF Tick12
  <2>4. CASE ~(Tick \/ Tick12)
    <3>1. CASE RX8025_SET_CONTROL2_CTFG
      <4>1. op # "idle" /\ (flag' = flag \/ flag' = FALSE)
            BY <3>1 DEF RX8025_SET_CONTROL2_CTFG
      <4> QED BY <4>1
    <3>2. CASE ~RX8025_SET_CONTROL2_CTFG
      <4>1. flag' = flag /\ (op = "idle" => regs' = regs)
            BY <1>2, <2>4, <3>2 DEF Next, RX8025_rtc_read_time, RX8025_rtc_set_time,
               RX8025_set_store, Begin, RX8025_rtc_setalarm, RX8025_INTA_OutIrq_set,
               Ensure24, RX8025_get_Time, RX8025_Time_set, Return, RX8025_Look,
               RX8025_get_show, chip
      <4> QED BY <4>1
    <3> QED BY <3>1, <3>2
  <2> QED BY <2>2, <2>3, <2>4
<1>3. TypeOK /\ AlarmInv /\ [Next]_vars => [Right]_vars BY <1>2
<1>4. AlarmRight <=> [][Right]_vars BY PTL DEF AlarmRight
<1> QED BY <1>1, <1>3, <1>4, TypeCorrect, AlarmStep, PTL DEF Spec
========================================================================
