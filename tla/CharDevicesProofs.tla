--------------------------- MODULE CharDevicesProofs ---------------------------
(***************************************************************************)
(* Proofs about the character devices of the IMX6 board, device by device: *)
(* the gate of their open functions for any finite set of openers, and     *)
(* that it implements ExclusiveOpen; the temperature sensor for any        *)
(* threads that share its file; the clock for any readers and writers and  *)
(* any times; the lamp for any programs and any potentiometer that has     *)
(* fewer steps than the write sends pulses down.  The last part puts them  *)
(* side by side, the weight sensor and the lamp on lines they may share,   *)
(* and shows what holds of DevicesSpec.                                    *)
(***************************************************************************)
EXTENDS CharDevices, FiniteSetTheorems, TLAPS

-----------------------------------------------------------------------------
(* The gate.                                                               *)

(* What a step preserves.  Mutual exclusion alone is not inductive: that   *)
(* only the first opener sees zero follows from what the counter counts.   *)
OwnedByOpener == \A l \in Lines : owner[l] \in Procs => Keeps(owner[l], l)

OwnLines == \A p \in Procs, l \in Lines : Keeps(p, l) /\ l \notin Shared => owner[l] = p

OnlyOpeners == \A l \in Lines \ Shared : owner[l] \in Procs \cup {Nobody}

Counts == weightfd \in Int /\ weightfd = 1 - Cardinality(Inside)

Types == /\ lines \in Wirings /\ pc \in [Procs -> Steps]
         /\ owner = [l \in Lines |-> owner[l]]
         /\ output \in [Lines -> BOOLEAN] /\ level \in [Lines -> {0, 1}]

Owners == OwnedByOpener /\ OwnLines /\ OnlyOpeners

IInv == Types /\ Counts /\ OneOpener /\ Owners

(* The openers inside are finitely many, so that they can be counted.      *)
LEMMA InsideFinite ==
  /\ IsFiniteSet(Inside)
  /\ Cardinality(Inside) \in Nat
  /\ Cardinality(Inside) <= Cardinality(Procs)
  /\ Cardinality(Procs) \in Nat
  /\ Cardinality(Inside) = 0 <=> Inside = {}
<1>1. Inside \subseteq Procs  BY DEF Inside
<1>2. IsFiniteSet(Procs)  BY ProcsOK
<1>3. IsFiniteSet(Inside) /\ Cardinality(Inside) <= Cardinality(Procs)
  BY <1>1, <1>2, FS_Subset
<1>4. Cardinality(Inside) \in Nat /\ Cardinality(Procs) \in Nat
  BY <1>2, <1>3, FS_CardinalityType
<1>5. Cardinality(Inside) = 0 <=> Inside = {}
  BY <1>3, FS_EmptySet
<1> QED  BY <1>3, <1>4, <1>5

(* An opener that comes in is counted once.                                *)
LEMMA ComesIn ==
  ASSUME pc \in [Procs -> Steps], NEW p \in Procs, NEW s \in Steps \ {"closed"},
         Goes(p, "closed", s)
  PROVE  Cardinality(Inside') = Cardinality(Inside) + 1
<1>1. Inside' = Inside \cup {p} /\ p \notin Inside
  BY DEF Inside, Goes
<1> QED  BY <1>1, InsideFinite, FS_AddElement

(* An opener that leaves is no longer counted.                             *)
LEMMA GoesOut ==
  ASSUME pc \in [Procs -> Steps], NEW p \in Procs, NEW s \in Steps \ {"closed"},
         Goes(p, s, "closed")
  PROVE  Cardinality(Inside') = Cardinality(Inside) - 1
<1>1. Inside' = Inside \ {p} /\ p \in Inside
  BY DEF Inside, Goes
<1> QED  BY <1>1, InsideFinite, FS_RemoveElement

(* An opener that moves inside changes no count.                           *)
LEMMA StaysIn ==
  ASSUME pc \in [Procs -> Steps], NEW p \in Procs, NEW s \in Steps \ {"closed"},
         NEW t \in Steps \ {"closed"}, Goes(p, s, t)
  PROVE  Cardinality(Inside') = Cardinality(Inside)
<1>1. Inside' = Inside
  BY DEF Inside, Goes
<1> QED  BY <1>1

LEMMA WiredLines ==
  ASSUME lines \in Wirings
  PROVE  lines.data \in Lines /\ lines.clock \in Lines /\ lines.data # lines.clock
BY WiringsOK

(* An opener about to request a line finds no opener owning it.            *)
LEMMA NoOpenerOwns ==
  ASSUME Types, OneOpener, OwnedByOpener, NEW p \in Procs, NEW l \in Lines, Asks(p, l)
  PROVE  owner[l] \notin Procs
<1> SUFFICES ASSUME owner[l] \in Procs PROVE FALSE
  OBVIOUS
<1>1. Keeps(owner[l], l)  BY DEF OwnedByOpener
<1>2. pc[owner[l]] \in Through /\ pc[p] \in Through
  BY <1>1 DEF Keeps, Asks, Through
<1>3. owner[l] = p  BY <1>2 DEF OneOpener
<1>4. Keeps(p, l)  BY <1>1, <1>3
<1> QED  BY <1>4, WiredLines DEF Types, Asks, Keeps

LEMMA PinsFollow == IInv => PinsFollowGate
<1> SUFFICES ASSUME IInv, NEW p \in Procs, NEW l \in Lines
             PROVE  /\ Asks(p, l) => owner[l] \notin Procs
                    /\ Keeps(p, l) => /\ owner[l] \notin Procs \ {p}
                                      /\ l \notin Shared => owner[l] = p
  BY DEF PinsFollowGate
<1>1. Asks(p, l) => owner[l] \notin Procs  BY NoOpenerOwns DEF IInv, Owners
<1>2. ASSUME Keeps(p, l), owner[l] \in Procs PROVE owner[l] = p
  <2>1. Keeps(owner[l], l)  BY <1>2 DEF IInv, Owners, OwnedByOpener
  <2>2. pc[owner[l]] \in Through /\ pc[p] \in Through
    BY <1>2, <2>1 DEF Keeps, Through
  <2> QED  BY <1>2, <2>2 DEF IInv, OneOpener
<1>3. Keeps(p, l) /\ l \notin Shared => owner[l] = p
  BY DEF IInv, Owners, OwnLines
<1> QED  BY <1>1, <1>2, <1>3

(* Steps that leave the owners, and who keeps which line, as they are.     *)
LEMMA OwnersStay ==
  ASSUME Owners, owner' = owner,
         \A q \in Procs, l \in Lines : Keeps(q, l)' <=> Keeps(q, l)
  PROVE  Owners'
BY DEF Owners, OwnedByOpener, OwnLines, OnlyOpeners

(* A request: its opener keeps the line from now on, and owns it unless    *)
(* another driver does.                                                    *)
LEMMA OwnersGain ==
  ASSUME Types, Owners, NEW p \in Procs, NEW k \in Lines, owner[k] \notin Procs,
         owner' = IF owner[k] = Nobody THEN [owner EXCEPT ![k] = p] ELSE owner,
         \A q \in Procs, l \in Lines : Keeps(q, l)' <=> Keeps(q, l) \/ (q = p /\ l = k)
  PROVE  Owners'
<1>1. \A l \in Lines : owner'[l] = IF l = k /\ owner[k] = Nobody THEN p ELSE owner[l]
  BY DEF Types
<1>2. OwnedByOpener'  BY <1>1 DEF Owners, OwnedByOpener
<1>3. OnlyOpeners'  BY <1>1 DEF Owners, OnlyOpeners
<1>4. ASSUME NEW q \in Procs, NEW l \in Lines, Keeps(q, l)', l \notin Shared
      PROVE  owner'[l] = q
  <2>1. CASE l = k
    <3>1. ~Keeps(q, k)
      <4>1. Keeps(q, k) => owner[k] = q  BY <1>4, <2>1 DEF Owners, OwnLines
      <4> QED  BY <4>1
    <3>2. q = p  BY <1>4, <2>1, <3>1
    <3>3. owner[k] = Nobody  BY <1>4, <2>1 DEF Owners, OnlyOpeners
    <3> QED  BY <1>1, <2>1, <3>2, <3>3
  <2>2. CASE l # k
    <3>1. Keeps(q, l)  BY <1>4, <2>2
    <3> QED  BY <1>1, <1>4, <2>2, <3>1 DEF Owners, OwnLines
  <2> QED  BY <2>1, <2>2
<1>5. OwnLines'  BY <1>4, WiringsOK DEF OwnLines
<1> QED  BY <1>2, <1>3, <1>5 DEF Owners

(* A line freed: nobody owns it, and its opener does not keep it.          *)
LEMMA OwnersLose ==
  ASSUME Types, Owners, OneOpener, NEW p \in Procs, NEW k \in Lines, Keeps(p, k),
         owner' = [owner EXCEPT ![k] = Nobody],
         \A q \in Procs, l \in Lines : Keeps(q, l)' <=> Keeps(q, l) /\ ~(q = p /\ l = k)
  PROVE  Owners'
<1>1. \A l \in Lines : owner'[l] = IF l = k THEN Nobody ELSE owner[l]
  BY DEF Types
<1>2. \A q \in Procs : Keeps(q, k) => q = p
  BY DEF OneOpener, Keeps, Through
<1>3. OwnedByOpener'  BY <1>1, ProcsOK DEF Owners, OwnedByOpener
<1>4. OnlyOpeners'  BY <1>1 DEF Owners, OnlyOpeners
<1>5. ASSUME NEW q \in Procs, NEW l \in Lines, Keeps(q, l)', l \notin Shared
      PROVE  owner'[l] = q
  <2>1. Keeps(q, l) /\ l # k  BY <1>2, <1>5
  <2> QED  BY <1>1, <1>5, <2>1 DEF Owners, OwnLines
<1>6. OwnLines'  BY <1>5 DEF OwnLines
<1> QED  BY <1>3, <1>4, <1>6 DEF Owners

LEMMA InitInductive == Init => IInv
<1> SUFFICES ASSUME Init PROVE IInv
  OBVIOUS
<1>1. Types  BY DEF Init, GpioInit, Types, Steps
<1>2. Inside = {}  BY DEF Init, Inside
<1>3. Counts  BY <1>2, InsideFinite DEF Init, Counts
<1>4. \A l \in Lines : owner[l] = Nobody  BY DEF Init, GpioInit
<1>5. Owners
  BY <1>4, ProcsOK DEF Init, Owners, OwnedByOpener, OwnLines, OnlyOpeners, Keeps
<1>6. OneOpener  BY DEF Init, OneOpener, Through
<1> QED  BY <1>1, <1>3, <1>5, <1>6 DEF IInv

LEMMA StepInductive == IInv /\ [Next]_vars => IInv'
<1> SUFFICES ASSUME IInv, [Next]_vars PROVE IInv'
  OBVIOUS
<1> USE DEF IInv
<1>w. lines.data \in Lines /\ lines.clock \in Lines /\ lines.data # lines.clock
  BY WiredLines DEF Types
<1>t. pc \in [Procs -> Steps]  BY DEF Types
<1>1. ASSUME NEW p \in Procs, DecAndTest(p) PROVE IInv'
  <2>1. Types'  BY <1>1 DEF DecAndTest, Goes, Types, Steps, lineVars
  <2>2. Cardinality(Inside') = Cardinality(Inside) + 1
    BY <1>1, <1>t, ComesIn DEF DecAndTest, Steps
  <2>3. Counts'  BY <1>1, <2>2, InsideFinite DEF DecAndTest, Counts
  <2>4. Owners'
    <3>1. /\ owner' = owner
          /\ \A q \in Procs, l \in Lines : Keeps(q, l)' <=> Keeps(q, l)
      BY <1>1, <1>t DEF DecAndTest, Goes, Keeps, lineVars
    <3> QED  BY <3>1, OwnersStay
  <2>5. CASE weightfd - 1 = 0
    <3>1. Cardinality(Inside) = 0  BY <2>5, InsideFinite DEF Counts
    <3>2. \A q \in Procs : pc[q] = "closed"  BY <3>1, InsideFinite DEF Inside
    <3>3. OneOpener'
      BY <1>1, <1>t, <2>5, <3>2 DEF DecAndTest, Goes, OneOpener, Through
    <3> QED  BY <2>1, <2>3, <2>4, <3>3
  <2>6. CASE weightfd - 1 # 0
    <3>1. OneOpener'
      BY <1>1, <1>t, <2>6 DEF DecAndTest, Goes, OneOpener, Through
    <3> QED  BY <2>1, <2>3, <2>4, <3>1
  <2> QED  BY <2>5, <2>6
<1>2. ASSUME NEW p \in Procs, Busy(p) \/ Release(p) PROVE IInv'
  <2>1. Types'  BY <1>2 DEF Busy, Release, Goes, Types, Steps, lineVars
  <2>2. Cardinality(Inside') = Cardinality(Inside) - 1
    BY <1>2, <1>t, GoesOut DEF Busy, Release, Steps
  <2>3. Counts'  BY <1>2, <2>2, InsideFinite DEF Busy, Release, Counts
  <2>4. OneOpener'  BY <1>2, <1>t DEF Busy, Release, Goes, OneOpener, Through
  <2>5. /\ owner' = owner
        /\ \A q \in Procs, l \in Lines : Keeps(q, l)' <=> Keeps(q, l)
    BY <1>2, <1>t DEF Busy, Release, Goes, Keeps, lineVars
  <2> QED  BY <2>1, <2>3, <2>4, <2>5, OwnersStay
<1>3. ASSUME NEW p \in Procs, RequestData(p) PROVE IInv'
  <2>1. Types'  BY <1>3 DEF RequestData, RequestIn, Goes, Types, Steps, lineVars
  <2>2. Cardinality(Inside') = Cardinality(Inside)
    BY <1>3, <1>t, StaysIn DEF RequestData, Steps
  <2>3. Counts'  BY <1>3, <2>2 DEF RequestData, Counts
  <2>4. OneOpener'  BY <1>3, <1>t DEF RequestData, Goes, OneOpener, Through
  <2>5. owner[lines.data] \notin Procs
    BY <1>3, <1>w, NoOpenerOwns DEF RequestData, Goes, Asks, Owners
  <2>6. owner' = IF owner[lines.data] = Nobody
                   THEN [owner EXCEPT ![lines.data] = p] ELSE owner
    BY <1>3 DEF RequestData, RequestIn, lineVars
  <2>7. \A q \in Procs, l \in Lines :
          Keeps(q, l)' <=> Keeps(q, l) \/ (q = p /\ l = lines.data)
    BY <1>3, <1>t DEF RequestData, Goes, Keeps
  <2>8. Owners'  BY <1>w, <2>5, <2>6, <2>7, OwnersGain
  <2> QED  BY <2>1, <2>3, <2>4, <2>8
<1>4. ASSUME NEW p \in Procs, RequestClock(p) PROVE IInv'
  <2>1. Types'  BY <1>4 DEF RequestClock, RequestOut, Goes, Types, Steps, lineVars
  <2>2. Cardinality(Inside') = Cardinality(Inside)
    BY <1>4, <1>t, StaysIn DEF RequestClock, Steps
  <2>3. Counts'  BY <1>4, <2>2 DEF RequestClock, Counts
  <2>4. OneOpener'  BY <1>4, <1>t DEF RequestClock, Goes, OneOpener, Through
  <2>5. owner[lines.clock] \notin Procs
    BY <1>4, <1>w, NoOpenerOwns DEF RequestClock, Goes, Asks, Owners
  <2>6. owner' = IF owner[lines.clock] = Nobody
                   THEN [owner EXCEPT ![lines.clock] = p] ELSE owner
    BY <1>4 DEF RequestClock, RequestOut, lineVars
  <2>7. \A q \in Procs, l \in Lines :
          Keeps(q, l)' <=> Keeps(q, l) \/ (q = p /\ l = lines.clock)
    BY <1>4, <1>t DEF RequestClock, Goes, Keeps
  <2>8. Owners'  BY <1>w, <2>5, <2>6, <2>7, OwnersGain
  <2> QED  BY <2>1, <2>3, <2>4, <2>8
<1>5. ASSUME NEW p \in Procs, Drive(p) PROVE IInv'
  <2>1. owner' = owner /\ pc' = pc /\ weightfd' = weightfd /\ lines' = lines
    BY <1>5 DEF Drive, gpio_direction_output, gpio_direction_input, gpio_set_value
  <2>2. output' \in [Lines -> BOOLEAN] /\ level' \in [Lines -> {0, 1}]
    BY <1>5 DEF Drive, gpio_direction_output, gpio_direction_input, gpio_set_value, Types
  <2>3. Types'  BY <2>1, <2>2 DEF Types
  <2>4. Counts' /\ OneOpener'  BY <2>1 DEF Counts, Inside, OneOpener
  <2>5. \A q \in Procs, l \in Lines : Keeps(q, l)' <=> Keeps(q, l)
    BY <2>1 DEF Keeps
  <2> QED  BY <2>1, <2>3, <2>4, <2>5, OwnersStay
<1>6. ASSUME NEW p \in Procs, FreeClock(p) PROVE IInv'
  <2>1. Types'  BY <1>6 DEF FreeClock, gpio_free, Goes, Types, Steps
  <2>2. Cardinality(Inside') = Cardinality(Inside)
    BY <1>6, <1>t, StaysIn DEF FreeClock, Steps
  <2>3. Counts'  BY <1>6, <2>2 DEF FreeClock, Counts
  <2>4. OneOpener'  BY <1>6, <1>t DEF FreeClock, Goes, OneOpener, Through
  <2>5. Keeps(p, lines.clock)  BY <1>6 DEF FreeClock, Goes, Keeps
  <2>6. owner' = [owner EXCEPT ![lines.clock] = Nobody]
    BY <1>6 DEF FreeClock, gpio_free
  <2>7. \A q \in Procs, l \in Lines :
          Keeps(q, l)' <=> Keeps(q, l) /\ ~(q = p /\ l = lines.clock)
    BY <1>6, <1>t, <1>w DEF FreeClock, Goes, Keeps
  <2>8. Owners'  BY <1>w, <2>5, <2>6, <2>7, OwnersLose
  <2> QED  BY <2>1, <2>3, <2>4, <2>8
<1>7. ASSUME NEW p \in Procs, FreeData(p) PROVE IInv'
  <2>1. Types'  BY <1>7 DEF FreeData, gpio_free, Goes, Types, Steps
  <2>2. Cardinality(Inside') = Cardinality(Inside)
    BY <1>7, <1>t, StaysIn DEF FreeData, Steps
  <2>3. Counts'  BY <1>7, <2>2 DEF FreeData, Counts
  <2>4. OneOpener'  BY <1>7, <1>t DEF FreeData, Goes, OneOpener, Through
  <2>5. Keeps(p, lines.data)  BY <1>7 DEF FreeData, Goes, Keeps
  <2>6. owner' = [owner EXCEPT ![lines.data] = Nobody]
    BY <1>7 DEF FreeData, gpio_free
  <2>7. \A q \in Procs, l \in Lines :
          Keeps(q, l)' <=> Keeps(q, l) /\ ~(q = p /\ l = lines.data)
    BY <1>7, <1>t, <1>w DEF FreeData, Goes, Keeps
  <2>8. Owners'  BY <1>w, <2>5, <2>6, <2>7, OwnersLose
  <2> QED  BY <2>1, <2>3, <2>4, <2>8
<1>8. CASE UNCHANGED vars
  BY <1>8 DEF vars, Types, Counts, Inside, OneOpener, Owners, OwnedByOpener, OwnLines,
              OnlyOpeners, Keeps
<1> QED  BY <1>1, <1>2, <1>3, <1>4, <1>5, <1>6, <1>7, <1>8 DEF Next

(* Another driver that requests and frees shared lines keeps it all.       *)
LEMMA OthersKeepGate ==
  ASSUME IInv, UNCHANGED <<weightfd, lines, pc>>,
         owner' = [l \in Lines |-> owner'[l]],
         output' \in [Lines -> BOOLEAN], level' \in [Lines -> {0, 1}],
         \A l \in Lines : owner'[l] # owner[l] => l \in Shared /\ owner'[l] \notin Procs
  PROVE  IInv'
<1>1. Types' /\ Counts' /\ OneOpener'
  BY DEF IInv, Types, Counts, Inside, OneOpener
<1>2. \A q \in Procs, l \in Lines : Keeps(q, l)' <=> Keeps(q, l)
  BY DEF Keeps
<1>3. OwnedByOpener'  BY <1>2 DEF IInv, Owners, OwnedByOpener
<1>4. OwnLines'  BY <1>2 DEF IInv, Owners, OwnLines
<1>5. OnlyOpeners'  BY DEF IInv, Owners, OnlyOpeners
<1> QED  BY <1>1, <1>3, <1>4, <1>5 DEF IInv, Owners

LEMMA Inductive == Spec => []IInv
BY InitInductive, StepInductive, PTL DEF Spec

LEMMA GateTypes == IInv => TypeOK
BY InsideFinite DEF IInv, Types, Counts, TypeOK

(* weight_open and weight1_release: the counter stays between minus the    *)
(* number of openers and 1.                                                *)
THEOREM TypeCorrect == Spec => []TypeOK
BY GateTypes, Inductive, PTL

(* weight_open: never two openers past the gate, however many try.         *)
THEOREM MutualExclusion == Spec => []OneOpener
<1>1. IInv => OneOpener  BY DEF IInv
<1> QED  BY <1>1, Inductive, PTL

(* weightfd is 1 whenever nobody is inside: the gate does not leak.        *)
THEOREM CounterExact == Spec => []CounterCountsInside
<1>1. IInv => CounterCountsInside  BY DEF IInv, Counts, CounterCountsInside
<1> QED  BY <1>1, Inductive, PTL

-----------------------------------------------------------------------------
(* The holder of the refinement mapping is the one opener past the gate.   *)
LEMMA HolderIs ==
  ASSUME Types, OneOpener, NEW p \in Procs, pc[p] \in Through
  PROVE  Holder = p
BY DEF OneOpener, Holder

LEMMA HolderNobody ==
  ASSUME \A p \in Procs : pc[p] \notin Through
  PROVE  Holder = Nobody
BY DEF Holder

(* OpenGate implements ExclusiveOpen: winning the gate takes the device,   *)
(* putting the counter back gives it up, and no other step shows.          *)
LEMMA StepRefines == IInv /\ IInv' /\ [Next]_vars => [Abstract!Next]_Holder
<1> SUFFICES ASSUME IInv, IInv', [Next]_vars PROVE [Abstract!Next]_Holder
  OBVIOUS
<1> USE DEF IInv
<1>1. ASSUME NEW p \in Procs, DecAndTest(p) PROVE [Abstract!Next]_Holder
  <2>1. CASE weightfd - 1 = 0
    <3>1. Cardinality(Inside) = 0  BY <2>1, InsideFinite DEF Counts
    <3>2. \A q \in Procs : pc[q] \notin Through
      BY <3>1, InsideFinite DEF Inside, Through
    <3>3. Holder = Nobody  BY <3>2, HolderNobody
    <3>4. pc'[p] \in Through
      BY <1>1, <2>1 DEF DecAndTest, Goes, Types, Through
    <3>5. Holder' = p  BY <3>4 DEF OneOpener, Holder
    <3> QED  BY <3>3, <3>5 DEF Abstract!Next, Abstract!Take
  <2>2. CASE weightfd - 1 # 0
    <3>1. \A q \in Procs : pc'[q] \in Through <=> pc[q] \in Through
      BY <1>1, <2>2 DEF DecAndTest, Goes, Types, Through
    <3>2. Holder' = Holder  BY <3>1 DEF Holder
    <3> QED  BY <3>2
  <2> QED  BY <2>1, <2>2
<1>2. ASSUME NEW p \in Procs,
             \/ Busy(p) \/ RequestData(p) \/ RequestClock(p) \/ Drive(p)
             \/ FreeClock(p) \/ FreeData(p)
      PROVE [Abstract!Next]_Holder
  <2>1. \A q \in Procs : pc'[q] \in Through <=> pc[q] \in Through
    BY <1>2 DEF Busy, RequestData, RequestClock, Drive, FreeClock, FreeData,
                Goes, Types, Through
  <2>2. Holder' = Holder  BY <2>1 DEF Holder
  <2> QED  BY <2>2
<1>3. ASSUME NEW p \in Procs, Release(p) PROVE [Abstract!Next]_Holder
  <2>1. pc[p] \in Through  BY <1>3 DEF Release, Goes, Through
  <2>2. Holder = p  BY <2>1, HolderIs
  <2>3. \A q \in Procs : pc'[q] \notin Through
    BY <1>3, <2>1 DEF Release, Goes, Types, OneOpener, Through
  <2>4. Holder' = Nobody  BY <2>3 DEF Holder
  <2> QED  BY <2>2, <2>4 DEF Abstract!Next, Abstract!Give
<1>4. CASE UNCHANGED vars
  BY <1>4 DEF vars, Holder
<1> QED  BY <1>1, <1>2, <1>3, <1>4 DEF Next

(* The gate of weight_open and weight1_release keeps the promise of        *)
(* ExclusiveOpen.                                                          *)
THEOREM GateImplementsExclusiveOpen == Spec => AbstractSpec
<1>1. Init => Abstract!Init
  BY DEF Init, Abstract!Init, Holder, Through
<1>2. IInv /\ IInv' /\ [Next]_vars => [Abstract!Next]_Holder
  BY StepRefines
<1> QED  BY <1>1, <1>2, Inductive, PTL DEF Spec, AbstractSpec, Abstract!Spec

-----------------------------------------------------------------------------
(* The temperature sensor.  The lock serialises the measurements, so its   *)
(* holder finds the newest one in the statics; what was stored never       *)
(* becomes older, and stays the same while no other thread stores.         *)
SensorTypes ==
  /\ opened \in BOOLEAN /\ lock \in Threads \cup {Nobody}
  /\ measured \in 0 .. Samples /\ temperature = measured /\ humidity = measured
  /\ data \in (0 .. Samples) \X (0 .. Samples)
  /\ tpc \in [Threads -> Sensor!Steps]
  /\ newest \in [Threads -> 0 .. Samples] /\ stored \in [Threads -> BOOLEAN]
  /\ out \in [Threads -> (0 .. Samples) \X (0 .. Samples)]

LockFollowsSteps ==
  \A t \in Threads : lock = t <=> tpc[t] \in {"locked", "measured", "stored"}

StoredIsNewest ==
  /\ data[1] <= measured /\ data[2] <= measured
  /\ \A t \in Threads : tpc[t] = "stored" => data[1] = measured

\* The byte to be copied, then the byte that was.
FirstByte(t) ==
  /\ tpc[t] = "copy" =>
       data[1] >= newest[t] /\ (~stored[t] => data[1] = newest[t])
  /\ tpc[t] \in {"copied", "done"} =>
       out[t][1] >= newest[t] /\ (~stored[t] => out[t][1] = newest[t])

SecondByte(t) ==
  /\ tpc[t] \in {"copy", "copied"} =>
       data[2] >= newest[t] /\ (~stored[t] => data[2] = newest[t])
  /\ tpc[t] = "done" =>
       out[t][2] >= newest[t] /\ (~stored[t] => out[t][2] = newest[t])

SensorInv ==
  /\ SensorTypes /\ LockFollowsSteps /\ StoredIsNewest
  /\ \A t \in Threads : FirstByte(t) /\ SecondByte(t)

LEMMA SensorInit == Sensor!Init => SensorInv
<1> SUFFICES ASSUME Sensor!Init PROVE SensorInv
  OBVIOUS
<1> USE DEF Sensor!Init
<1>1. SensorTypes
  <2>1. <<0, 0>> \in (0 .. Samples) \X (0 .. Samples)  BY SamplesOK
  <2> QED  BY <2>1, SamplesOK DEF SensorTypes, Sensor!Steps
<1>2. LockFollowsSteps  BY ActorsOK DEF LockFollowsSteps
<1>3. StoredIsNewest  BY DEF StoredIsNewest
<1>4. ASSUME NEW t \in Threads PROVE FirstByte(t) /\ SecondByte(t)
  BY DEF FirstByte, SecondByte
<1> QED  BY <1>1, <1>2, <1>3, <1>4 DEF SensorInv

(* A pair with one part replaced.                                          *)
LEMMA PairExcept ==
  ASSUME NEW S, NEW d \in S \X S, NEW v \in S
  PROVE  /\ d[1] \in S /\ d[2] \in S
         /\ [d EXCEPT ![1] = v] = <<v, d[2]>>
         /\ [d EXCEPT ![2] = v] = <<d[1], v>>
OBVIOUS

(* A thread that moves in or out of the lock takes it or gives it back.    *)
LEMMA LockMoves ==
  ASSUME SensorTypes, LockFollowsSteps, NEW t \in Threads,
         NEW from \in Sensor!Steps, NEW to \in Sensor!Steps, Sensor!Goes(t, from, to),
         \/ lock = Nobody /\ lock' = t /\ to \in {"locked", "measured", "stored"}
         \/ lock = t /\ lock' = Nobody /\ to \notin {"locked", "measured", "stored"}
         \/ /\ lock' = lock
            /\ from \in {"locked", "measured", "stored"} <=> to \in {"locked", "measured", "stored"}
  PROVE  LockFollowsSteps'
BY ActorsOK DEF SensorTypes, LockFollowsSteps, Sensor!Goes

LEMMA SensorStep == SensorInv /\ [Sensor!Next]_sensorVars => SensorInv'
<1> SUFFICES ASSUME SensorInv, [Sensor!Next]_sensorVars PROVE SensorInv'
  OBVIOUS
<1> USE DEF SensorInv, Sensor!Steps
<1>1. CASE Sensor!Open \/ Sensor!Release \/ UNCHANGED sensorVars
  <2>1. /\ opened' \in BOOLEAN
        /\ UNCHANGED <<lock, temperature, humidity, data, measured, tpc, newest, stored, out>>
    BY <1>1 DEF Sensor!Open, Sensor!Release, sensorVars, SensorTypes
  <2>2. SensorTypes' /\ LockFollowsSteps' /\ StoredIsNewest'
    BY <2>1 DEF SensorTypes, LockFollowsSteps, StoredIsNewest
  <2>3. ASSUME NEW t \in Threads PROVE FirstByte(t)' /\ SecondByte(t)'
    BY <2>1 DEF FirstByte, SecondByte
  <2> QED  BY <2>2, <2>3
<1>2. ASSUME NEW t \in Threads, Sensor!Lock(t) PROVE SensorInv'
  <2> USE <1>2 DEF Sensor!Lock, Sensor!Goes
  <2>1. SensorTypes'  BY DEF SensorTypes
  <2>2. LockFollowsSteps'  BY LockMoves
  <2>3. StoredIsNewest'  BY DEF StoredIsNewest, SensorTypes
  <2>4. ASSUME NEW u \in Threads PROVE FirstByte(u)' /\ SecondByte(u)'
    BY DEF FirstByte, SecondByte, SensorTypes
  <2> QED  BY <2>1, <2>2, <2>3, <2>4
<1>3. ASSUME NEW t \in Threads, Sensor!Measure(t) PROVE SensorInv'
  <2> USE <1>3 DEF Sensor!Measure, Sensor!Goes
  <2>1. SensorTypes' /\ measured' >= measured  BY SamplesOK DEF SensorTypes
  <2>2. LockFollowsSteps'  BY LockMoves
  <2>3. \A u \in Threads : tpc[u] # "stored"  BY DEF LockFollowsSteps
  <2>4. data[1] \in Int /\ data[2] \in Int /\ measured \in Int
    BY DEF SensorTypes
  <2>5. StoredIsNewest'  BY <2>1, <2>3, <2>4 DEF StoredIsNewest, SensorTypes
  <2>6. ASSUME NEW u \in Threads PROVE FirstByte(u)' /\ SecondByte(u)'
    BY DEF FirstByte, SecondByte, SensorTypes
  <2> QED  BY <2>1, <2>2, <2>5, <2>6
<1>4. ASSUME NEW t \in Threads, Sensor!StoreTemperature(t) PROVE SensorInv'
  <2> USE <1>4 DEF Sensor!StoreTemperature, Sensor!Goes, Sensor!Stores
  <2>1. measured \in 0 .. Samples /\ data' = <<measured, data[2]>> /\ data[2] \in 0 .. Samples
    BY PairExcept DEF SensorTypes
  <2>2. SensorTypes'  BY <2>1 DEF SensorTypes
  <2>3. LockFollowsSteps'  BY LockMoves
  <2>4. StoredIsNewest'  BY <2>1 DEF StoredIsNewest, SensorTypes
  <2>5. data[1] \in Int /\ data[1] <= measured  BY PairExcept DEF SensorTypes, StoredIsNewest
  <2>6. ASSUME NEW u \in Threads PROVE FirstByte(u)' /\ SecondByte(u)'
    <3>1. newest'[u] = newest[u] /\ newest[u] \in Int /\ out' = out
      BY DEF SensorTypes
    <3>2. u # t => tpc'[u] = tpc[u]  BY DEF SensorTypes
    <3>3. tpc'[t] = "stored"  BY DEF SensorTypes
    <3>4. data'[1] = measured /\ data'[2] = data[2]  BY <2>1
    <3>5. stored'[u] <=> (u # t /\ (stored[u] \/ tpc[u] \in {"copy", "copied"}))
      OBVIOUS
    <3> HIDE <1>4 DEF Sensor!StoreTemperature, Sensor!Goes, Sensor!Stores
    <3> QED  BY <2>1, <2>5, <3>1, <3>2, <3>3, <3>4, <3>5 DEF FirstByte, SecondByte
  <2> QED  BY <2>2, <2>3, <2>4, <2>6
<1>5. ASSUME NEW t \in Threads, Sensor!StoreHumidity(t) PROVE SensorInv'
  <2> USE <1>5 DEF Sensor!StoreHumidity, Sensor!Goes, Sensor!Stores
  <2>1. measured \in 0 .. Samples /\ data' = <<data[1], measured>> /\ data[1] = measured
    BY PairExcept DEF SensorTypes, StoredIsNewest
  <2>2. SensorTypes'  BY <2>1 DEF SensorTypes
  <2>3. LockFollowsSteps'  BY LockMoves DEF LockFollowsSteps
  <2>4. StoredIsNewest'  BY <2>1 DEF StoredIsNewest, SensorTypes
  <2>5. data[2] \in Int /\ data[2] <= measured  BY PairExcept DEF SensorTypes, StoredIsNewest
  <2>6. ASSUME NEW u \in Threads PROVE FirstByte(u)' /\ SecondByte(u)'
    <3>1. CASE u = t
      <4>1. tpc'[u] = "copy" /\ newest'[u] = measured  BY <3>1 DEF SensorTypes
      <4> QED  BY <2>1, <4>1 DEF FirstByte, SecondByte
    <3>2. CASE u # t
      <4>1. tpc'[u] = tpc[u] /\ newest'[u] = newest[u] /\ newest[u] \in Int /\ out' = out
        BY <3>2 DEF SensorTypes
      <4>2. data'[1] = data[1] /\ data'[2] = measured
        BY <2>1
      <4>3. stored'[u] <=> (u # t /\ (stored[u] \/ tpc[u] \in {"copy", "copied"}))
        OBVIOUS
      <4> HIDE <1>5 DEF Sensor!StoreHumidity, Sensor!Goes, Sensor!Stores
      <4> QED  BY <2>1, <2>5, <3>2, <4>1, <4>2, <4>3 DEF FirstByte, SecondByte
    <3> QED  BY <3>1, <3>2
  <2> QED  BY <2>2, <2>3, <2>4, <2>6
<1>6. ASSUME NEW t \in Threads, Sensor!Copy(t, 1, "copy", "copied") PROVE SensorInv'
  <2> USE <1>6 DEF Sensor!Copy, Sensor!Goes
  <2>1. out' = [out EXCEPT ![t] = <<data[1], out[t][2]>>]
    <3>1. data[1] \in 0 .. Samples  BY PairExcept DEF SensorTypes
    <3>2. out[t] \in (0 .. Samples) \X (0 .. Samples)  BY DEF SensorTypes
    <3>3. [out[t] EXCEPT ![1] = data[1]] = <<data[1], out[t][2]>>  BY <3>1, <3>2, PairExcept
    <3> QED  BY <3>3
  <2>2. <<data[1], out[t][2]>> \in (0 .. Samples) \X (0 .. Samples)
    BY PairExcept DEF SensorTypes
  <2>3. SensorTypes'  BY <2>1, <2>2 DEF SensorTypes
  <2>4. LockFollowsSteps'  BY LockMoves
  <2>5. StoredIsNewest'  BY DEF StoredIsNewest, SensorTypes
  <2>6. ASSUME NEW u \in Threads PROVE FirstByte(u)' /\ SecondByte(u)'
    BY <2>1 DEF FirstByte, SecondByte, SensorTypes
  <2> QED  BY <2>3, <2>4, <2>5, <2>6
<1>7. ASSUME NEW t \in Threads, Sensor!Copy(t, 2, "copied", "done") PROVE SensorInv'
  <2> USE <1>7 DEF Sensor!Copy, Sensor!Goes
  <2>1. out' = [out EXCEPT ![t] = <<out[t][1], data[2]>>]
    <3>1. data[2] \in 0 .. Samples  BY PairExcept DEF SensorTypes
    <3>2. out[t] \in (0 .. Samples) \X (0 .. Samples)  BY DEF SensorTypes
    <3>3. [out[t] EXCEPT ![2] = data[2]] = <<out[t][1], data[2]>>  BY <3>1, <3>2, PairExcept
    <3> QED  BY <3>3
  <2>2. <<out[t][1], data[2]>> \in (0 .. Samples) \X (0 .. Samples)
    BY PairExcept DEF SensorTypes
  <2>3. SensorTypes'  BY <2>1, <2>2 DEF SensorTypes
  <2>4. LockFollowsSteps'  BY LockMoves
  <2>5. StoredIsNewest'  BY DEF StoredIsNewest, SensorTypes
  <2>6. ASSUME NEW u \in Threads PROVE FirstByte(u)' /\ SecondByte(u)'
    BY <2>1 DEF FirstByte, SecondByte, SensorTypes
  <2> QED  BY <2>3, <2>4, <2>5, <2>6
<1>8. ASSUME NEW t \in Threads, Sensor!Return(t) PROVE SensorInv'
  <2> USE <1>8 DEF Sensor!Return, Sensor!Goes
  <2>1. SensorTypes'  BY DEF SensorTypes
  <2>2. LockFollowsSteps'  BY LockMoves
  <2>3. StoredIsNewest'  BY DEF StoredIsNewest, SensorTypes
  <2>4. ASSUME NEW u \in Threads PROVE FirstByte(u)' /\ SecondByte(u)'
    BY DEF FirstByte, SecondByte, SensorTypes
  <2> QED  BY <2>1, <2>2, <2>3, <2>4
<1> QED  BY <1>1, <1>2, <1>3, <1>4, <1>5, <1>6, <1>7, <1>8 DEF Sensor!Next

LEMMA SensorMeets == SensorInv => Sensor!TypeOK /\ Sensor!ReadIsNewest
<1> SUFFICES ASSUME SensorInv PROVE Sensor!TypeOK /\ Sensor!ReadIsNewest
  OBVIOUS
<1> USE DEF SensorInv
<1>1. Sensor!TypeOK  BY DEF SensorTypes, Sensor!TypeOK
<1>2. ASSUME NEW t \in Threads, tpc[t] = "done"
      PROVE  /\ \A i \in {1, 2} : out[t][i] >= newest[t]
             /\ ~stored[t] => out[t] = <<newest[t], newest[t]>>
  <2>1. out[t] = <<out[t][1], out[t][2]>>  BY DEF SensorTypes
  <2> QED  BY <1>2, <2>1 DEF FirstByte, SecondByte
<1> QED  BY <1>1, <1>2 DEF Sensor!ReadIsNewest

-----------------------------------------------------------------------------
(* The lamp.  Nothing keeps two writers apart, but a line that somebody    *)
(* else moves disturbs the write; so the wiper of an undisturbed write     *)
(* that found the lines driven is where its own pulses have put it.  On    *)
(* the way down that is an upper bound, which the last pulse brings to     *)
(* zero, on the way up the position.                                       *)
LampSteps ==
  {"closed", "request cs", "request inc", "open", "free cs", "free inc",
   "down", "low", "high", "up low", "up high", "written"}

LampTypes ==
  /\ output \in [Lines -> BOOLEAN] /\ level \in [Lines -> {0, 1}] /\ wiper \in 0 .. Top
  /\ upc \in [Users -> LampSteps] /\ pulses \in [Users -> Int]
  /\ val \in [Users -> Values \cup {0}]
  /\ ready \in [Users -> BOOLEAN] /\ disturbed \in [Users -> BOOLEAN]

SetTo(v) == IF v < 0 THEN 0 ELSE IF v > Top THEN Top ELSE v

Selected == {"down", "low", "high", "up low", "up high"}

Course(u) ==
  /\ upc[u] \in Lamp!Writing => Lamp!Driven(output)
  /\ upc[u] \in Selected => level[CS] = 0
  /\ upc[u] = "low" =>
       /\ level[UD] = 0 /\ (level[INC] = 1 \/ pulses[u] = Downs)
       /\ pulses[u] \in 0 .. Downs /\ wiper <= pulses[u]
  /\ upc[u] = "high" =>
       /\ level[UD] = 0 /\ level[INC] = 0
       /\ pulses[u] \in 1 .. Downs /\ wiper <= pulses[u] - 1
  /\ upc[u] = "up low" =>
       /\ level[UD] = 1 /\ level[INC] = 1
       /\ pulses[u] >= 0 \/ pulses[u] = val[u]
       /\ val[u] >= pulses[u] /\ wiper = SetTo(val[u] - pulses[u])
  /\ upc[u] = "up high" =>
       /\ level[UD] = 1 /\ level[INC] = 0
       /\ pulses[u] > 0 /\ val[u] >= pulses[u] /\ wiper = SetTo(val[u] - pulses[u] + 1)
  /\ upc[u] = "written" => wiper = SetTo(val[u])

LampInv == LampTypes /\ \A u \in Users : ready[u] /\ ~disturbed[u] => Course(u)

LEMMA LampLinesDiffer ==
  /\ UD \in Lines /\ CS \in Lines /\ INC \in Lines
  /\ UD # CS /\ UD # INC /\ CS # INC
  /\ Lamp!LampLines = {UD, CS, INC}
BY LampLinesOK, WiringsOK DEF Lamp!LampLines

LEMMA LampInit == Lamp!Init => LampInv
<1> SUFFICES ASSUME Lamp!Init PROVE LampInv
  OBVIOUS
<1>1. LampTypes  BY PulsesOK DEF Lamp!Init, Lamp!GpioInit, LampTypes, LampSteps
<1>2. ASSUME NEW u \in Users PROVE Course(u)
  BY DEF Lamp!Init, Course, Selected, Lamp!Writing
<1> QED  BY <1>1, <1>2 DEF LampInv

(* What somebody's step leaves to the undisturbed writes of the others.    *)
Untouched ==
  /\ \A l \in Lamp!LampLines : level'[l] = level[l] /\ output'[l] = output[l]
  /\ wiper' = wiper

OthersSafe(u) ==
  \A w \in Users \ {u} :
    upc[w] \in Lamp!Writing /\ ready[w] /\ ~disturbed'[w] => ~disturbed[w] /\ Untouched

(* Whatever moves the lines, the potentiometer follows and the writes of   *)
(* the others are marked.                                                  *)
LEMMA SeenByLamp ==
  ASSUME LampInv, NEW u, Lamp!Follows, Lamp!DisturbsOthers(u)
  PROVE  /\ wiper' \in 0 .. Top /\ disturbed' \in [Users -> BOOLEAN]
         /\ u \in Users => (disturbed'[u] <=> disturbed[u])
         /\ OthersSafe(u)
<1>1. wiper' \in 0 .. Top
  BY PulsesOK DEF Lamp!Follows, Lamp!Step, LampInv, LampTypes
<1>2. disturbed' \in [Users -> BOOLEAN]  BY DEF Lamp!DisturbsOthers
<1>3. ASSUME u \in Users PROVE disturbed'[u] <=> disturbed[u]
  BY <1>3 DEF Lamp!DisturbsOthers
<1>4. ASSUME NEW w \in Users \ {u}, upc[w] \in Lamp!Writing, ready[w], ~disturbed'[w]
      PROVE  ~disturbed[w] /\ Untouched
  <2>1. ~disturbed[w] /\ ~Lamp!Moved  BY <1>4 DEF Lamp!DisturbsOthers
  <2>2. \A l \in Lamp!LampLines : level'[l] = level[l] /\ output'[l] = output[l]
    BY <2>1 DEF Lamp!Moved
  <2>3. Course(w)  BY <1>4, <2>1 DEF LampInv
  <2>4. Lamp!Driven(output) /\ Lamp!Driven(output')
    BY <1>4, <2>2, <2>3 DEF Course, Lamp!Driven
  <2>5. level'[INC] = level[INC]  BY <2>2, LampLinesDiffer
  <2>6. wiper' = wiper  BY <2>4, <2>5 DEF Lamp!Follows
  <2> QED  BY <2>1, <2>2, <2>6 DEF Untouched
<1>5. OthersSafe(u)  BY <1>4 DEF OthersSafe
<1> QED  BY <1>1, <1>2, <1>3, <1>5

(* What driving a line keeps.                                              *)
LEMMA DriveKeeps ==
  ASSUME LampInv, NEW u \in Users, NEW l \in Lines, NEW v \in {0, 1}, Lamp!Drive(u, l, v)
  PROVE  /\ level' \in [Lines -> {0, 1}] /\ output' = output /\ wiper' \in 0 .. Top
         /\ disturbed' \in [Users -> BOOLEAN] /\ (disturbed'[u] <=> disturbed[u])
         /\ OthersSafe(u)
<1>1. level' \in [Lines -> {0, 1}] /\ output' = output
  BY DEF Lamp!Drive, Lamp!gpio_set_value, LampInv, LampTypes
<1> QED  BY <1>1, SeenByLamp DEF Lamp!Drive

(* The line driven, and what the wiper makes of it.                        *)
LEMMA DriveMoves ==
  ASSUME LampInv, NEW u \in Users, NEW l \in Lines, NEW v \in {0, 1}, Lamp!Drive(u, l, v),
         Lamp!Driven(output)
  PROVE  /\ level'[l] = v /\ \A k \in Lines \ {l} : level'[k] = level[k]
         /\ Lamp!Driven(output)'
         /\ wiper' = IF level[INC] = 1 /\ level'[INC] = 0 /\ level[CS] = 0
                       THEN wiper + Lamp!Step(level[UD]) ELSE wiper
<1>1. output' = output  BY DEF Lamp!Drive, Lamp!gpio_set_value
<1>2. Lamp!Driven(output')  BY <1>1
<1>3. level'[l] = v /\ \A k \in Lines \ {l} : level'[k] = level[k]
  BY DEF Lamp!Drive, Lamp!gpio_set_value, LampInv, LampTypes
<1>4. wiper' = IF level[INC] = 1 /\ level'[INC] = 0 /\ level[CS] = 0
                 THEN wiper + Lamp!Step(level[UD]) ELSE wiper
  BY <1>2 DEF Lamp!Drive, Lamp!Follows
<1> QED  BY <1>2, <1>3, <1>4 DEF Lamp!Driven

(* A step of one user keeps the course of every other undisturbed write;   *)
(* so does a step of nobody who uses the lamp.                             *)
LEMMA OneMoves ==
  ASSUME LampInv, NEW u, LampTypes', OthersSafe(u),
         \A w \in Users \ {u} :
           /\ upc'[w] = upc[w] /\ pulses'[w] = pulses[w]
           /\ val'[w] = val[w] /\ ready'[w] = ready[w],
         u \in Users /\ ready'[u] /\ ~disturbed'[u] => Course(u)'
  PROVE  LampInv'
<1>1. ASSUME NEW w \in Users \ {u}, ready'[w], ~disturbed'[w] PROVE Course(w)'
  <2>1. CASE upc[w] \notin Lamp!Writing
    BY <1>1, <2>1 DEF Course, Selected, Lamp!Writing
  <2>2. CASE upc[w] \in Lamp!Writing
    <3>1. ~disturbed[w] /\ Untouched  BY <1>1, <2>2 DEF OthersSafe
    <3>2. Course(w)  BY <1>1, <3>1 DEF LampInv
    <3>3. Lamp!Driven(output)  BY <2>2, <3>2 DEF Course
    <3>4. Lamp!Driven(output)'  BY <3>1, <3>3 DEF Untouched, Lamp!Driven
    <3>5. /\ level'[UD] = level[UD] /\ level'[CS] = level[CS] /\ level'[INC] = level[INC]
          /\ wiper' = wiper
      BY <3>1, LampLinesDiffer DEF Untouched
    <3> QED  BY <1>1, <3>2, <3>4, <3>5 DEF Course
  <2> QED  BY <2>1, <2>2
<1> QED  BY <1>1 DEF LampInv

LEMMA LampOpens ==
  ASSUME LampInv, NEW u \in Users, Lamp!Open(u) \/ Lamp!Release(u)
  PROVE  LampInv'
<1>1. ASSUME NEW l \in Lines, NEW from \in LampSteps, NEW to \in LampSteps \ Lamp!Writing,
             Lamp!Request(u, l, from, to)
      PROVE  LampInv'
  <2>1. output' \in [Lines -> BOOLEAN] /\ level' \in [Lines -> {0, 1}]
    BY <1>1 DEF Lamp!Request, Lamp!RequestOut, Lamp!lineVars, LampInv, LampTypes
  <2>2. /\ wiper' \in 0 .. Top /\ disturbed' \in [Users -> BOOLEAN] /\ OthersSafe(u)
    BY <1>1, SeenByLamp DEF Lamp!Request
  <2>3. LampTypes'
    BY <1>1, <2>1, <2>2 DEF Lamp!Request, Lamp!Goes, LampInv, LampTypes
  <2>4. Course(u)'
    BY <1>1 DEF Lamp!Request, Lamp!Goes, LampInv, LampTypes, Course, Selected, Lamp!Writing
  <2> QED  BY <1>1, <2>2, <2>3, <2>4, OneMoves DEF Lamp!Request, Lamp!Goes, LampInv, LampTypes
<1>2. ASSUME NEW l \in Lines, NEW from \in LampSteps, NEW to \in LampSteps \ Lamp!Writing,
             Lamp!Free(u, l, from, to)
      PROVE  LampInv'
  <2>1. LampTypes'
    BY <1>2 DEF Lamp!Free, Lamp!gpio_free, Lamp!Goes, LampInv, LampTypes
  <2>2. Course(u)'
    BY <1>2 DEF Lamp!Free, Lamp!Goes, LampInv, LampTypes, Course, Selected, Lamp!Writing
  <2>3. OthersSafe(u)
    BY <1>2 DEF Lamp!Free, Lamp!gpio_free, OthersSafe, Untouched
  <2> QED  BY <1>2, <2>1, <2>2, <2>3, OneMoves DEF Lamp!Free, Lamp!Goes, LampInv, LampTypes
<1> QED  BY <1>1, <1>2, LampLinesDiffer DEF Lamp!Open, Lamp!Release, LampSteps, Lamp!Writing

(* The numbers of a write.                                                 *)
LEMMA Bounds ==
  ASSUME LampTypes, NEW u \in Users
  PROVE  /\ Top \in Nat /\ Downs \in Nat /\ Downs > Top
         /\ wiper \in Nat /\ wiper <= Top /\ pulses[u] \in Int /\ val[u] \in Int
         /\ level[UD] \in {0, 1} /\ level[CS] \in {0, 1} /\ level[INC] \in {0, 1}
<1>1. Top \in Nat /\ Downs \in Nat /\ Downs > Top /\ \A v \in Values : v \in Int
  BY PulsesOK
<1>2. wiper \in Nat /\ wiper <= Top  BY <1>1 DEF LampTypes
<1>3. val[u] \in Values \cup {0} /\ pulses[u] \in Int  BY DEF LampTypes
<1>4. val[u] \in Int  BY <1>1, <1>3
<1>5. \A l \in Lines : level[l] \in {0, 1}  BY DEF LampTypes
<1>6. level[UD] \in {0, 1} /\ level[CS] \in {0, 1} /\ level[INC] \in {0, 1}
  BY <1>5, LampLinesDiffer
<1> QED  BY <1>1, <1>2, <1>3, <1>4, <1>6

LEMMA LampWrites ==
  ASSUME LampInv, NEW u \in Users, Lamp!Write(u)
  PROVE  LampInv'
<1>a. LampTypes /\ (ready[u] /\ ~disturbed[u] => Course(u))  BY DEF LampInv
<1>0. /\ Top \in Nat /\ Downs \in Nat /\ Downs > Top
      /\ wiper \in Nat /\ wiper <= Top /\ pulses[u] \in Int /\ val[u] \in Int
      /\ level[UD] \in {0, 1} /\ level[CS] \in {0, 1} /\ level[INC] \in {0, 1}
  BY <1>a, Bounds
<1>1. ASSUME Lamp!Select(u) PROVE LampInv'
  <2>1. level' = [level EXCEPT ![CS] = 0] /\ output' = output
    BY <1>1 DEF Lamp!Select, Lamp!gpio_set_value
  <2>2. /\ wiper' \in 0 .. Top /\ disturbed' \in [Users -> BOOLEAN] /\ OthersSafe(u)
    BY <1>1, SeenByLamp DEF Lamp!Select
  <2>3. val' \in [Users -> Values \cup {0}] /\ ready' \in [Users -> BOOLEAN]
    BY <1>1, <1>a DEF Lamp!Select, LampTypes, Lamp!Driven
  <2>4. LampTypes'
    BY <1>1, <1>a, <2>1, <2>2, <2>3 DEF Lamp!Select, Lamp!Goes, LampTypes, LampSteps
  <2>5. /\ upc'[u] = "down" /\ (ready'[u] => Lamp!Driven(output))
        /\ \A w \in Users \ {u} : /\ upc'[w] = upc[w] /\ pulses'[w] = pulses[w]
                                  /\ val'[w] = val[w] /\ ready'[w] = ready[w]
    BY <1>1, <1>a DEF Lamp!Select, Lamp!Goes, LampTypes
  <2>6. ASSUME ready'[u] PROVE Course(u)'
    <3>1. Lamp!Driven(output)'  BY <2>1, <2>5, <2>6 DEF Lamp!Driven
    <3>2. level'[CS] = 0  BY <1>a, <2>1, LampLinesDiffer DEF LampTypes
    <3> QED  BY <2>5, <3>1, <3>2 DEF Course, Selected
  <2> QED  BY <2>2, <2>4, <2>5, <2>6, OneMoves
<1>2. ASSUME Lamp!Down(u) PROVE LampInv'
  <2>1. Lamp!Drive(u, UD, 0)  BY <1>2 DEF Lamp!Down
  <2>2. /\ level' \in [Lines -> {0, 1}] /\ output' = output /\ wiper' \in 0 .. Top
        /\ disturbed' \in [Users -> BOOLEAN] /\ (disturbed'[u] <=> disturbed[u])
        /\ OthersSafe(u)
    BY <2>1, DriveKeeps, LampLinesDiffer
  <2>3. /\ upc'[u] = "low" /\ pulses'[u] = Downs /\ val'[u] = val[u] /\ ready'[u] = ready[u]
        /\ \A w \in Users \ {u} : /\ upc'[w] = upc[w] /\ pulses'[w] = pulses[w]
                                  /\ val'[w] = val[w] /\ ready'[w] = ready[w]
    BY <1>a, <1>2 DEF Lamp!Down, Lamp!Goes, LampTypes
  <2>4. LampTypes'
    <3>1. Downs \in Int  BY <1>0
    <3>2. pulses' \in [Users -> Int]  BY <1>a, <1>2, <3>1 DEF Lamp!Down, LampTypes
    <3> QED  BY <1>a, <1>2, <2>2, <3>2 DEF Lamp!Down, Lamp!Goes, LampTypes, LampSteps
  <2>5. ASSUME ready'[u], ~disturbed'[u] PROVE Course(u)'
    <3>1. Course(u) /\ upc[u] = "down"
      BY <1>a, <1>2, <2>2, <2>3, <2>5 DEF Lamp!Down, Lamp!Goes
    <3>d. Lamp!Driven(output)  BY <3>1 DEF Course, Lamp!Writing
    <3>2. /\ level'[UD] = 0 /\ level'[CS] = level[CS] /\ level'[INC] = level[INC]
          /\ Lamp!Driven(output)'
      BY <2>1, <3>d, DriveMoves, LampLinesDiffer
    <3>3. wiper' = wiper
      BY <1>0, <2>1, <3>d, <3>2, DriveMoves, LampLinesDiffer
    <3> QED  BY <2>3, <3>1, <3>2, <3>3, <1>0 DEF Course, Selected
  <2> QED  BY <2>2, <2>3, <2>4, <2>5, OneMoves
<1>3. ASSUME Lamp!Low(u) PROVE LampInv'
  <2>1. Lamp!Drive(u, INC, 0)  BY <1>3 DEF Lamp!Low
  <2>2. /\ level' \in [Lines -> {0, 1}] /\ output' = output /\ wiper' \in 0 .. Top
        /\ disturbed' \in [Users -> BOOLEAN] /\ (disturbed'[u] <=> disturbed[u])
        /\ OthersSafe(u)
    BY <2>1, DriveKeeps, LampLinesDiffer
  <2>3. /\ upc'[u] = "high" /\ pulses'[u] = pulses[u] /\ val'[u] = val[u] /\ ready'[u] = ready[u]
        /\ \A w \in Users \ {u} : /\ upc'[w] = upc[w] /\ pulses'[w] = pulses[w]
                                  /\ val'[w] = val[w] /\ ready'[w] = ready[w]
    BY <1>a, <1>3 DEF Lamp!Low, Lamp!Goes, LampTypes
  <2>4. LampTypes'
    BY <1>a, <1>0, <1>3, <2>2 DEF Lamp!Low, Lamp!Goes, LampTypes, LampSteps
  <2>5. ASSUME ready'[u], ~disturbed'[u] PROVE Course(u)'
    <3>1. Course(u) /\ upc[u] = "low" /\ pulses[u] > 0
      BY <1>a, <1>3, <2>2, <2>3, <2>5 DEF Lamp!Low, Lamp!Goes
    <3>d. Lamp!Driven(output)  BY <3>1 DEF Course, Lamp!Writing
    <3>2. /\ level'[INC] = 0 /\ level'[UD] = level[UD] /\ level'[CS] = level[CS]
          /\ Lamp!Driven(output)'
      BY <2>1, <3>d, DriveMoves, LampLinesDiffer
    <3>3. wiper' = IF level[INC] = 1 /\ level[CS] = 0 THEN wiper + Lamp!Step(level[UD]) ELSE wiper
      BY <1>0, <2>1, <3>d, <3>2, DriveMoves, LampLinesDiffer
    <3>4. wiper' <= pulses[u] - 1
      BY <3>1, <3>3, <1>0 DEF Lamp!Step, Course, Selected
    <3> QED  BY <2>3, <3>1, <3>2, <3>4, <1>0 DEF Course, Selected
  <2> QED  BY <2>2, <2>3, <2>4, <2>5, OneMoves
<1>4. ASSUME Lamp!High(u) PROVE LampInv'
  <2>1. Lamp!Drive(u, INC, 1)  BY <1>4 DEF Lamp!High
  <2>2. /\ level' \in [Lines -> {0, 1}] /\ output' = output /\ wiper' \in 0 .. Top
        /\ disturbed' \in [Users -> BOOLEAN] /\ (disturbed'[u] <=> disturbed[u])
        /\ OthersSafe(u)
    BY <2>1, DriveKeeps, LampLinesDiffer
  <2>3. /\ upc'[u] = "low" /\ pulses'[u] = pulses[u] - 1 /\ val'[u] = val[u] /\ ready'[u] = ready[u]
        /\ \A w \in Users \ {u} : /\ upc'[w] = upc[w] /\ pulses'[w] = pulses[w]
                                  /\ val'[w] = val[w] /\ ready'[w] = ready[w]
    BY <1>a, <1>4 DEF Lamp!High, Lamp!Goes, LampTypes
  <2>4. LampTypes'
    <3>1. pulses[u] - 1 \in Int  BY <1>0
    <3>2. pulses' \in [Users -> Int]  BY <1>a, <1>4, <3>1 DEF Lamp!High, LampTypes
    <3> QED  BY <1>a, <1>4, <2>2, <3>2 DEF Lamp!High, Lamp!Goes, LampTypes, LampSteps
  <2>5. ASSUME ready'[u], ~disturbed'[u] PROVE Course(u)'
    <3>1. Course(u) /\ upc[u] = "high"
      BY <1>a, <1>4, <2>2, <2>3, <2>5 DEF Lamp!High, Lamp!Goes
    <3>d. Lamp!Driven(output)  BY <3>1 DEF Course, Lamp!Writing
    <3>2. /\ level'[INC] = 1 /\ level'[UD] = level[UD] /\ level'[CS] = level[CS]
          /\ Lamp!Driven(output)'
      BY <2>1, <3>d, DriveMoves, LampLinesDiffer
    <3>3. wiper' = wiper
      BY <1>0, <2>1, <3>d, <3>2, DriveMoves, LampLinesDiffer
    <3> QED  BY <2>3, <3>1, <3>2, <3>3, <1>0 DEF Course, Selected
  <2> QED  BY <2>2, <2>3, <2>4, <2>5, OneMoves
<1>5. ASSUME Lamp!Up(u) PROVE LampInv'
  <2>1. Lamp!Drive(u, UD, 1)  BY <1>5 DEF Lamp!Up
  <2>2. /\ level' \in [Lines -> {0, 1}] /\ output' = output /\ wiper' \in 0 .. Top
        /\ disturbed' \in [Users -> BOOLEAN] /\ (disturbed'[u] <=> disturbed[u])
        /\ OthersSafe(u)
    BY <2>1, DriveKeeps, LampLinesDiffer
  <2>3. /\ upc'[u] = "up low" /\ pulses'[u] = val[u] /\ val'[u] = val[u] /\ ready'[u] = ready[u]
        /\ \A w \in Users \ {u} : /\ upc'[w] = upc[w] /\ pulses'[w] = pulses[w]
                                  /\ val'[w] = val[w] /\ ready'[w] = ready[w]
    BY <1>a, <1>5 DEF Lamp!Up, Lamp!Goes, LampTypes
  <2>4. LampTypes'
    <3>1. val[u] \in Int  BY <1>0
    <3>2. pulses' \in [Users -> Int]  BY <1>a, <1>5, <3>1 DEF Lamp!Up, LampTypes
    <3> QED  BY <1>a, <1>5, <2>2, <3>2 DEF Lamp!Up, Lamp!Goes, LampTypes, LampSteps
  <2>5. ASSUME ready'[u], ~disturbed'[u] PROVE Course(u)'
    <3>1. Course(u) /\ upc[u] = "low" /\ pulses[u] = 0
      BY <1>a, <1>5, <2>2, <2>3, <2>5 DEF Lamp!Up, Lamp!Goes
    <3>d. Lamp!Driven(output)  BY <3>1 DEF Course, Lamp!Writing
    <3>2. /\ level'[UD] = 1 /\ level'[CS] = level[CS] /\ level'[INC] = level[INC]
          /\ Lamp!Driven(output)'
      BY <2>1, <3>d, DriveMoves, LampLinesDiffer
    <3>3. wiper' = wiper
      BY <1>0, <2>1, <3>d, <3>2, DriveMoves, LampLinesDiffer
    <3>4. level[CS] = 0 /\ level[INC] = 1 /\ wiper = 0
      BY <1>0, <3>1 DEF Course, Selected
    <3>5. val'[u] - pulses'[u] = 0 /\ val'[u] >= pulses'[u]
      <4>1. val'[u] = val[u] /\ pulses'[u] = val[u]  BY <2>3
      <4> QED  BY <1>0, <4>1
    <3>6. SetTo(val'[u] - pulses'[u]) = 0  BY <1>0, <3>5 DEF SetTo
    <3> QED  BY <2>3, <3>2, <3>3, <3>4, <3>5, <3>6 DEF Course
  <2> QED  BY <2>2, <2>3, <2>4, <2>5, OneMoves
<1>6. ASSUME Lamp!UpLow(u) PROVE LampInv'
  <2>1. Lamp!Drive(u, INC, 0)  BY <1>6 DEF Lamp!UpLow
  <2>2. /\ level' \in [Lines -> {0, 1}] /\ output' = output /\ wiper' \in 0 .. Top
        /\ disturbed' \in [Users -> BOOLEAN] /\ (disturbed'[u] <=> disturbed[u])
        /\ OthersSafe(u)
    BY <2>1, DriveKeeps, LampLinesDiffer
  <2>3. /\ upc'[u] = "up high" /\ pulses'[u] = pulses[u] /\ val'[u] = val[u] /\ ready'[u] = ready[u]
        /\ \A w \in Users \ {u} : /\ upc'[w] = upc[w] /\ pulses'[w] = pulses[w]
                                  /\ val'[w] = val[w] /\ ready'[w] = ready[w]
    BY <1>a, <1>6 DEF Lamp!UpLow, Lamp!Goes, LampTypes
  <2>4. LampTypes'
    BY <1>a, <1>0, <1>6, <2>2 DEF Lamp!UpLow, Lamp!Goes, LampTypes, LampSteps
  <2>5. ASSUME ready'[u], ~disturbed'[u] PROVE Course(u)'
    <3>1. Course(u) /\ upc[u] = "up low" /\ pulses[u] > 0
      BY <1>a, <1>6, <2>2, <2>3, <2>5 DEF Lamp!UpLow, Lamp!Goes
    <3>d. Lamp!Driven(output)  BY <3>1 DEF Course, Lamp!Writing
    <3>2. /\ level'[INC] = 0 /\ level'[UD] = level[UD] /\ level'[CS] = level[CS]
          /\ Lamp!Driven(output)'
      BY <2>1, <3>d, DriveMoves, LampLinesDiffer
    <3>3. wiper' = IF level[INC] = 1 /\ level[CS] = 0 THEN wiper + Lamp!Step(level[UD]) ELSE wiper
      BY <1>0, <2>1, <3>d, <3>2, DriveMoves, LampLinesDiffer
    <3>4. /\ level[CS] = 0 /\ level[UD] = 1 /\ level[INC] = 1
          /\ val[u] >= pulses[u] /\ wiper = SetTo(val[u] - pulses[u])
      BY <3>1 DEF Course, Selected
    <3>5. wiper' = SetTo(val[u] - pulses[u] + 1)
      <4>1. wiper' = wiper + (IF wiper < Top THEN 1 ELSE 0)
        BY <3>3, <3>4 DEF Lamp!Step
      <4> QED  BY <1>0, <3>4, <4>1 DEF SetTo
    <3> QED  BY <1>0, <2>3, <3>1, <3>2, <3>4, <3>5 DEF Course
  <2> QED  BY <2>2, <2>3, <2>4, <2>5, OneMoves
<1>7. ASSUME Lamp!UpHigh(u) PROVE LampInv'
  <2>1. Lamp!Drive(u, INC, 1)  BY <1>7 DEF Lamp!UpHigh
  <2>2. /\ level' \in [Lines -> {0, 1}] /\ output' = output /\ wiper' \in 0 .. Top
        /\ disturbed' \in [Users -> BOOLEAN] /\ (disturbed'[u] <=> disturbed[u])
        /\ OthersSafe(u)
    BY <2>1, DriveKeeps, LampLinesDiffer
  <2>3. /\ upc'[u] = "up low" /\ pulses'[u] = pulses[u] - 1 /\ val'[u] = val[u] /\ ready'[u] = ready[u]
        /\ \A w \in Users \ {u} : /\ upc'[w] = upc[w] /\ pulses'[w] = pulses[w]
                                  /\ val'[w] = val[w] /\ ready'[w] = ready[w]
    BY <1>a, <1>7 DEF Lamp!UpHigh, Lamp!Goes, LampTypes
  <2>4. LampTypes'
    <3>1. pulses[u] - 1 \in Int  BY <1>0
    <3>2. pulses' \in [Users -> Int]  BY <1>a, <1>7, <3>1 DEF Lamp!UpHigh, LampTypes
    <3> QED  BY <1>a, <1>7, <2>2, <3>2 DEF Lamp!UpHigh, Lamp!Goes, LampTypes, LampSteps
  <2>5. ASSUME ready'[u], ~disturbed'[u] PROVE Course(u)'
    <3>1. Course(u) /\ upc[u] = "up high"
      BY <1>a, <1>7, <2>2, <2>3, <2>5 DEF Lamp!UpHigh, Lamp!Goes
    <3>d. Lamp!Driven(output)  BY <3>1 DEF Course, Lamp!Writing
    <3>2. /\ level'[INC] = 1 /\ level'[UD] = level[UD] /\ level'[CS] = level[CS]
          /\ Lamp!Driven(output)'
      BY <2>1, <3>d, DriveMoves, LampLinesDiffer
    <3>3. wiper' = wiper
      BY <1>0, <2>1, <3>d, <3>2, DriveMoves, LampLinesDiffer
    <3>4. /\ level[CS] = 0 /\ level[UD] = 1
          /\ pulses[u] > 0 /\ val[u] >= pulses[u] /\ wiper = SetTo(val[u] - pulses[u] + 1)
      BY <3>1 DEF Course, Selected
    <3>5. /\ val'[u] - pulses'[u] = val[u] - pulses[u] + 1
          /\ pulses'[u] >= 0 /\ val'[u] >= pulses'[u]
      <4>1. val'[u] = val[u] /\ pulses'[u] = pulses[u] - 1  BY <2>3
      <4>2. pulses[u] > 0 /\ val[u] >= pulses[u]  BY <3>4
      <4> QED  BY <1>0, <4>1, <4>2
    <3>6. SetTo(val'[u] - pulses'[u]) = SetTo(val[u] - pulses[u] + 1)  BY <3>5
    <3> QED  BY <2>3, <3>2, <3>3, <3>4, <3>5, <3>6 DEF Course
  <2> QED  BY <2>2, <2>3, <2>4, <2>5, OneMoves
<1>8. ASSUME Lamp!Deselect(u) PROVE LampInv'
  <2>1. Lamp!Drive(u, CS, 1)  BY <1>8 DEF Lamp!Deselect
  <2>2. /\ level' \in [Lines -> {0, 1}] /\ output' = output /\ wiper' \in 0 .. Top
        /\ disturbed' \in [Users -> BOOLEAN] /\ (disturbed'[u] <=> disturbed[u])
        /\ OthersSafe(u)
    BY <2>1, DriveKeeps, LampLinesDiffer
  <2>3. /\ upc'[u] = "written" /\ pulses'[u] = pulses[u] /\ val'[u] = val[u] /\ ready'[u] = ready[u]
        /\ \A w \in Users \ {u} : /\ upc'[w] = upc[w] /\ pulses'[w] = pulses[w]
                                  /\ val'[w] = val[w] /\ ready'[w] = ready[w]
    BY <1>a, <1>8 DEF Lamp!Deselect, Lamp!Goes, LampTypes
  <2>4. LampTypes'
    BY <1>a, <1>0, <1>8, <2>2 DEF Lamp!Deselect, Lamp!Goes, LampTypes, LampSteps
  <2>5. ASSUME ready'[u], ~disturbed'[u] PROVE Course(u)'
    <3>1. Course(u) /\ upc[u] = "up low" /\ pulses[u] <= 0
      BY <1>a, <1>8, <2>2, <2>3, <2>5 DEF Lamp!Deselect, Lamp!Goes
    <3>d. Lamp!Driven(output)  BY <3>1 DEF Course, Lamp!Writing
    <3>2. /\ level'[CS] = 1 /\ level'[UD] = level[UD] /\ level'[INC] = level[INC]
          /\ Lamp!Driven(output)'
      BY <2>1, <3>d, DriveMoves, LampLinesDiffer
    <3>3. wiper' = wiper
      BY <1>0, <2>1, <3>d, <3>2, DriveMoves, LampLinesDiffer
    <3>4. /\ pulses[u] >= 0 \/ pulses[u] = val[u]
          /\ val[u] >= pulses[u] /\ wiper = SetTo(val[u] - pulses[u])
      BY <3>1 DEF Course
    <3>5. CASE pulses[u] = 0
      <4>1. SetTo(val[u] - pulses[u]) = SetTo(val[u])  BY <1>0, <3>5 DEF SetTo
      <4> QED  BY <2>3, <3>2, <3>3, <3>4, <4>1 DEF Course, Selected
    <3>6. CASE pulses[u] = val[u] /\ val[u] <= 0
      <4>1. SetTo(val[u] - pulses[u]) = SetTo(val[u])  BY <1>0, <3>6 DEF SetTo
      <4> QED  BY <2>3, <3>2, <3>3, <3>4, <4>1 DEF Course, Selected
    <3>7. pulses[u] = 0 \/ (pulses[u] = val[u] /\ val[u] <= 0)
      <4>1. pulses[u] <= 0  BY <3>1
      <4>2. pulses[u] >= 0 \/ pulses[u] = val[u]  BY <3>4
      <4> QED  BY <1>0, <4>1, <4>2
    <3> QED  BY <3>5, <3>6, <3>7
  <2> QED  BY <2>2, <2>3, <2>4, <2>5, OneMoves
<1>9. ASSUME Lamp!Return(u) PROVE LampInv'
  <2>1. LampTypes'
    <3>1. UNCHANGED <<output, level, wiper>>  BY <1>9 DEF Lamp!Return, Lamp!lineVars
    <3>2. pulses' \in [Users -> Int] /\ val' \in [Users -> Values \cup {0}]
      BY <1>9, <1>a DEF Lamp!Return, LampTypes
    <3>3. ready' \in [Users -> BOOLEAN] /\ disturbed' \in [Users -> BOOLEAN]
      BY <1>9, <1>a DEF Lamp!Return, LampTypes
    <3>4. upc' \in [Users -> LampSteps]
      BY <1>9, <1>a DEF Lamp!Return, Lamp!Goes, LampTypes, LampSteps
    <3> QED  BY <1>a, <3>1, <3>2, <3>3, <3>4 DEF LampTypes
  <2>2. Course(u)'
    BY <1>9 DEF LampInv, Lamp!Return, Lamp!Goes, LampTypes, Course, Selected, Lamp!Writing
  <2>3. OthersSafe(u)
    BY <1>9 DEF LampInv, Lamp!Return, Lamp!lineVars, LampTypes, OthersSafe, Untouched
  <2> QED  BY <1>9, <2>1, <2>2, <2>3, OneMoves DEF LampInv, Lamp!Return, Lamp!Goes, LampTypes
<1> QED  BY <1>1, <1>2, <1>3, <1>4, <1>5, <1>6, <1>7, <1>8, <1>9 DEF Lamp!Write

LEMMA LampStep ==
  ASSUME LampInv, Lamp!Next \/ UNCHANGED <<output, level, lampVars>>
  PROVE  LampInv'
<1>1. ASSUME UNCHANGED <<output, level, lampVars>> PROVE LampInv'
  BY <1>1 DEF LampInv, LampTypes, Course, lampVars, Lamp!Driven
<1> QED  BY <1>1, LampOpens, LampWrites DEF Lamp!Next

LEMMA LampMeets == LampInv => Lamp!TypeOK /\ Lamp!WriteSetsWiper
<1>1. LampInv => Lamp!TypeOK  BY DEF LampInv, LampTypes, Lamp!TypeOK
<1>2. LampInv => Lamp!WriteSetsWiper  BY DEF LampInv, Course, SetTo, Lamp!WriteSetsWiper
<1> QED  BY <1>1, <1>2

-----------------------------------------------------------------------------
(* The clock.  First its numbers: a value survives BCD, and registers and  *)
(* times are the same thing.                                               *)
Hour == 0 .. 3599
Percent == 0 .. 99
Byte == 0 .. 255

LEMMA BcdRoundTrip ==
  ASSUME NEW v \in Percent
  PROVE  Clock!Bcd(v) \in Byte /\ Clock!Binary(Clock!Bcd(v)) = v
BY DEF Clock!Bcd, Clock!Binary, Percent, Byte

LEMMA FieldsOfTime ==
  ASSUME NEW time \in Hour
  PROVE  /\ Clock!Field(time, "sec") \in 0 .. 59 /\ Clock!Field(time, "min") \in 0 .. 59
         /\ Clock!Field(time, "min") * 60 + Clock!Field(time, "sec") = time
BY DEF Clock!Field, Hour

LEMMA TimeOfFields ==
  ASSUME NEW s \in 0 .. 59, NEW m \in 0 .. 59
  PROVE  /\ m * 60 + s \in Hour
         /\ Clock!Field(m * 60 + s, "sec") = s
         /\ Clock!Field(m * 60 + s, "min") = m
BY DEF Clock!Field, Hour

LEMMA BinaryIsByte ==
  ASSUME NEW x \in Byte
  PROVE  Clock!Binary(x) \in Byte
BY DEF Clock!Binary, Byte

LEMMA AfterOne ==
  ASSUME NEW time \in Hour, NEW k \in Nat
  PROVE  /\ Clock!After(time, k) \in Hour /\ Clock!After(time, 0) = time
         /\ Clock!After(Clock!After(time, k), 1) = Clock!After(time, k + 1)
BY DEF Clock!After, Hour

Sexagesimal == {Clock!Bcd(v) : v \in 0 .. 59}

LEMMA FieldRoundTrip ==
  ASSUME NEW time \in Hour
  PROVE  /\ Clock!Binary(Clock!Bcd(Clock!Field(time, "sec"))) = Clock!Field(time, "sec")
         /\ Clock!Binary(Clock!Bcd(Clock!Field(time, "min"))) = Clock!Field(time, "min")
<1>1. /\ Clock!Field(time, "sec") \in 0 .. 59 /\ Clock!Field(time, "min") \in 0 .. 59
  BY FieldsOfTime
<1>2. 0 .. 59 \subseteq Percent  BY DEF Percent
<1> QED  BY <1>1, <1>2, BcdRoundTrip

(* What the registers of a time hold, and the time they stand for.         *)
LEMMA RegistersOfTime ==
  ASSUME NEW time \in Hour
  PROVE  /\ Clock!Registers(time) \in [Clock!Fields -> Sexagesimal]
         /\ Clock!Time(Clock!Registers(time)) = time
<1>1. Clock!Field(time, "sec") \in 0 .. 59 /\ Clock!Field(time, "min") \in 0 .. 59
  BY FieldsOfTime
<1>2. /\ Clock!Registers(time)["sec"] = Clock!Bcd(Clock!Field(time, "sec"))
      /\ Clock!Registers(time)["min"] = Clock!Bcd(Clock!Field(time, "min"))
  BY DEF Clock!Registers, Clock!Fields
<1>3. Clock!Registers(time) \in [Clock!Fields -> Sexagesimal]
  BY <1>1 DEF Clock!Registers, Clock!Fields, Sexagesimal
<1>4. Clock!Time(Clock!Registers(time)) = Clock!Field(time, "min") * 60 + Clock!Field(time, "sec")
  BY <1>2, FieldRoundTrip DEF Clock!Time
<1> QED  BY <1>3, <1>4, FieldsOfTime

(* Whatever the registers hold is a time, also while they are half set.    *)
LEMMA TimeOfRegisters ==
  ASSUME NEW regs \in [Clock!Fields -> Sexagesimal]
  PROVE  /\ Clock!Time(regs) \in Hour
         /\ regs["sec"] = Clock!Bcd(Clock!Field(Clock!Time(regs), "sec"))
         /\ regs["min"] = Clock!Bcd(Clock!Field(Clock!Time(regs), "min"))
<1>1. PICK s \in 0 .. 59 : regs["sec"] = Clock!Bcd(s)
  BY DEF Clock!Fields, Sexagesimal
<1>2. PICK m \in 0 .. 59 : regs["min"] = Clock!Bcd(m)
  BY DEF Clock!Fields, Sexagesimal
<1>3. Clock!Binary(Clock!Bcd(s)) = s /\ Clock!Binary(Clock!Bcd(m)) = m
  <2>1. 0 .. 59 \subseteq Percent  BY DEF Percent
  <2> QED  BY <2>1, BcdRoundTrip
<1>4. Clock!Time(regs) = m * 60 + s
  BY <1>1, <1>2, <1>3 DEF Clock!Time
<1> QED  BY <1>1, <1>2, <1>4, TimeOfFields

LEMMA SexagesimalIsByte ==
  ASSUME NEW x \in Sexagesimal
  PROVE  x \in Byte
<1>1. PICK v \in 0 .. 59 : x = Clock!Bcd(v)  BY DEF Sexagesimal
<1>2. v \in Percent  BY DEF Percent
<1> QED  BY <1>1, <1>2, BcdRoundTrip

(* The mutex keeps settings out of a loading read, so that what the reader *)
(* finds is a second and, k ticks later, a minute; from there the values   *)
(* are only decoded and taken, unless another reader spoils them.          *)
ReaderSteps ==
  {"idle", "sec", "min", "decode sec", "take sec", "decode min", "take min", "read"}

ClockTypes ==
  /\ chip \in [Clock!Fields -> Sexagesimal] /\ static \in [Clock!Fields -> Byte]
  /\ ticks \in 0 .. MaxTicks /\ mutex \in Threads \cup Users \cup {Nobody}
  /\ DOMAIN cpc = Threads \cup Users
  /\ \A r \in Threads : cpc[r] \in ReaderSteps
  /\ \A w \in Users : cpc[w] \in {"idle", "set"}
  /\ tm \in [Threads -> [Clock!Fields -> Byte]]
  /\ asked \in [Users -> Settings \cup {Start}]
  /\ shown \in [Threads -> SUBSET Hour] /\ spoiled \in [Threads -> BOOLEAN]

MutexFollowsSteps ==
  \A t \in Threads \cup Users : mutex = t <=> cpc[t] \in {"sec", "min", "set"}

SeesTheTime == \A r \in Threads : Clock!Loading(r) => Clock!Time(chip) \in shown[r]

\* a is the second that was loaded and b the time of the minute.
Stage(r, a, b) ==
  LET sec == Clock!Field(a, "sec")
      min == Clock!Field(b, "min") IN
  /\ cpc[r] = "min" => static["sec"] = Clock!Bcd(sec) /\ Clock!Time(chip) = b
  /\ cpc[r] = "decode sec" => static["sec"] = Clock!Bcd(sec) /\ static["min"] = Clock!Bcd(min)
  /\ cpc[r] = "take sec" => static["sec"] = sec /\ static["min"] = Clock!Bcd(min)
  /\ cpc[r] = "decode min" => tm[r]["sec"] = sec /\ static["min"] = Clock!Bcd(min)
  /\ cpc[r] = "take min" => tm[r]["sec"] = sec /\ static["min"] = min
  /\ cpc[r] = "read" => tm[r]["sec"] = sec /\ tm[r]["min"] = min

HasRead(r) ==
  \E a \in shown[r], k \in 0 .. ticks :
    Clock!SawRun(r, a, k) /\ Stage(r, a, Clock!After(a, k))

ReadsOnce ==
  \A r \in Threads : cpc[r] \notin {"idle", "sec"} /\ ~spoiled[r] => HasRead(r)

ClockInv == ClockTypes /\ MutexFollowsSteps /\ SeesTheTime /\ ReadsOnce

LEMMA ClockInit == Clock!Init => ClockInv
<1> SUFFICES ASSUME Clock!Init PROVE ClockInv
  OBVIOUS
<1>1. chip \in [Clock!Fields -> Sexagesimal]
  <2>1. Start \in Hour  BY TimesOK DEF Hour
  <2> QED  BY <2>1, RegistersOfTime DEF Clock!Init
<1>2. ClockTypes
  <2>1. 0 \in Byte /\ 0 \in 0 .. MaxTicks  BY TimesOK DEF Byte
  <2>2. Clock!Zero \in [Clock!Fields -> Byte]  BY <2>1 DEF Clock!Zero
  <2>3. \A r \in Threads : cpc[r] \in ReaderSteps  BY DEF Clock!Init, ReaderSteps
  <2> QED  BY <1>1, <2>1, <2>2, <2>3 DEF Clock!Init, ClockTypes
<1>3. MutexFollowsSteps  BY ActorsOK DEF Clock!Init, MutexFollowsSteps
<1>4. SeesTheTime /\ ReadsOnce  BY DEF Clock!Init, SeesTheTime, ReadsOnce, Clock!Loading
<1> QED  BY <1>2, <1>3, <1>4 DEF ClockInv

(* Who moves, and who does not.                                            *)
LEMMA Moves ==
  ASSUME ClockTypes, NEW t \in Threads \cup Users, NEW from, NEW to, Clock!Goes(t, from, to)
  PROVE  /\ cpc[t] = from /\ cpc'[t] = to /\ DOMAIN cpc' = Threads \cup Users
         /\ \A u \in Threads \cup Users : u # t => cpc'[u] = cpc[u]
BY DEF ClockTypes, Clock!Goes

Holding == {"sec", "min", "set"}

(* A thread that moves in or out of the mutex takes it or gives it back.   *)
LEMMA MutexMoves ==
  ASSUME ClockTypes, MutexFollowsSteps, NEW t \in Threads \cup Users,
         NEW from, NEW to, Clock!Goes(t, from, to),
         \/ mutex = Nobody /\ mutex' = t /\ to \in Holding
         \/ from \in Holding /\ mutex' = Nobody /\ to \notin Holding
         \/ mutex' = mutex /\ (from \in Holding <=> to \in Holding)
  PROVE  MutexFollowsSteps'
BY ActorsOK, Moves DEF MutexFollowsSteps, Holding

(* Nobody sets the clock while a reader loads.                             *)
LEMMA NoSetting ==
  ASSUME MutexFollowsSteps, NEW r \in Threads, Clock!Loading(r)
  PROVE  mutex = r /\ \A w \in Users : cpc[w] # "set"
BY ActorsOK DEF MutexFollowsSteps, Clock!Loading

(* What the history of a reader gains in a step.                           *)
LEMMA WhatShows ==
  ASSUME ClockTypes, chip' \in [Clock!Fields -> Sexagesimal], Clock!Shows
  PROVE  /\ shown' \in [Threads -> SUBSET Hour]
         /\ \A r \in Threads :
              /\ ~Clock!Loading(r)' => shown'[r] = shown[r]
              /\ Clock!Loading(r) => shown[r] \subseteq shown'[r]
              /\ Clock!Loading(r)' /\ (\A w \in Users : cpc'[w] # "set") =>
                   Clock!Time(chip') \in shown'[r]
<1>1. Clock!Time(chip') \in Hour  BY TimeOfRegisters
<1>2. ASSUME NEW r \in Threads
      PROVE  /\ shown'[r] \in SUBSET Hour
             /\ ~Clock!Loading(r)' => shown'[r] = shown[r]
             /\ Clock!Loading(r) => shown[r] \subseteq shown'[r]
             /\ Clock!Loading(r)' /\ (\A w \in Users : cpc'[w] # "set") =>
                  Clock!Time(chip') \in shown'[r]
  <2>1. shown[r] \in SUBSET Hour  BY DEF ClockTypes
  <2>2. shown'[r] =
          IF cpc'[r] \notin {"sec", "min"} THEN shown[r]
          ELSE (IF Clock!Loading(r) THEN shown[r] ELSE {})
               \cup (IF \E w \in Users : cpc'[w] = "set" THEN {} ELSE {Clock!Time(chip')})
    BY DEF Clock!Shows
  <2>3. CASE cpc'[r] \notin {"sec", "min"}
    BY <2>1, <2>2, <2>3 DEF Clock!Loading
  <2>4. CASE cpc'[r] \in {"sec", "min"}
    <3>1. shown'[r] = (IF Clock!Loading(r) THEN shown[r] ELSE {})
               \cup (IF \E w \in Users : cpc'[w] = "set" THEN {} ELSE {Clock!Time(chip')})
      BY <2>2, <2>4
    <3>2. Clock!Loading(r)'  BY <2>4 DEF Clock!Loading
    <3>3. Clock!Loading(r) => shown[r] \subseteq shown'[r]  BY <3>1
    <3>4. (\A w \in Users : cpc'[w] # "set") => Clock!Time(chip') \in shown'[r]  BY <3>1
    <3>5. shown'[r] \in SUBSET Hour  BY <1>1, <2>1, <3>1
    <3> QED  BY <3>2, <3>3, <3>4, <3>5
  <2> QED  BY <2>3, <2>4
<1>3. shown' \in [Threads -> SUBSET Hour]
  <2>1. shown' = [r \in Threads |-> shown'[r]]  BY DEF Clock!Shows
  <2> QED  BY <1>2, <2>1
<1> QED  BY <1>2, <1>3

(* A reader that does not move keeps what it has read, unless another      *)
(* reader spoils it.                                                       *)
LEMMA Kept ==
  ASSUME ReadsOnce, NEW r \in Threads,
         cpc'[r] = cpc[r], tm'[r] = tm[r], shown[r] \subseteq shown'[r], ticks' = ticks,
         cpc[r] \notin {"idle", "sec"} /\ ~spoiled'[r] => ~spoiled[r] /\ static' = static,
         cpc[r] = "min" => chip' = chip,
         cpc'[r] \notin {"idle", "sec"}, ~spoiled'[r]
  PROVE  HasRead(r)'
<1>1. static' = static /\ HasRead(r)  BY DEF ReadsOnce
<1>2. PICK a \in shown[r], k \in 0 .. ticks :
        Clock!SawRun(r, a, k) /\ Stage(r, a, Clock!After(a, k))
  BY <1>1 DEF HasRead
<1>3. Clock!SawRun(r, a, k)'  BY <1>2 DEF Clock!SawRun
<1>4. Stage(r, a, Clock!After(a, k))'  BY <1>1, <1>2 DEF Stage
<1> QED  BY <1>2, <1>3, <1>4 DEF HasRead

LEMMA ClockTicks ==
  ASSUME ClockInv, Clock!Tick
  PROVE  ClockInv'
<1>a. ClockTypes /\ MutexFollowsSteps /\ SeesTheTime /\ ReadsOnce  BY DEF ClockInv
<1>b. /\ ticks < MaxTicks /\ ticks' = ticks + 1
      /\ chip' = Clock!Registers(Clock!After(Clock!Time(chip), 1))
      /\ UNCHANGED <<mutex, static, cpc, tm, asked, spoiled>>
  BY DEF Clock!Tick
<1>1. Clock!Time(chip) \in Hour  BY <1>a, TimeOfRegisters DEF ClockTypes
<1>2. Clock!After(Clock!Time(chip), 1) \in Hour  BY <1>1, AfterOne
<1>3. /\ chip' \in [Clock!Fields -> Sexagesimal]
      /\ Clock!Time(chip') = Clock!After(Clock!Time(chip), 1)
  BY <1>b, <1>2, RegistersOfTime
<1>4. /\ shown' \in [Threads -> SUBSET Hour]
      /\ \A r \in Threads :
           /\ ~Clock!Loading(r)' => shown'[r] = shown[r]
           /\ Clock!Loading(r) => shown[r] \subseteq shown'[r]
           /\ Clock!Loading(r)' /\ (\A w \in Users : cpc'[w] # "set") =>
                Clock!Time(chip') \in shown'[r]
  BY <1>a, <1>3, WhatShows DEF Clock!Tick
<1>5. ticks' \in 0 .. MaxTicks /\ ticks \in Nat
  BY <1>a, <1>b, TimesOK DEF ClockTypes
<1>6. ClockTypes'  BY <1>a, <1>b, <1>3, <1>4, <1>5 DEF ClockTypes
<1>7. MutexFollowsSteps'  BY <1>a, <1>b DEF MutexFollowsSteps
<1>8. \A r \in Threads : Clock!Loading(r) <=> Clock!Loading(r)'
  BY <1>b DEF Clock!Loading
<1>9. SeesTheTime'
  BY <1>a, <1>b, <1>4, <1>8, NoSetting DEF SeesTheTime
<1>10. ASSUME NEW r \in Threads, cpc'[r] \notin {"idle", "sec"}, ~spoiled'[r]
       PROVE  HasRead(r)'
  <2>1. HasRead(r)  BY <1>a, <1>b, <1>10 DEF ReadsOnce
  <2>2. PICK a \in shown[r], k \in 0 .. ticks :
          Clock!SawRun(r, a, k) /\ Stage(r, a, Clock!After(a, k))
    BY <2>1 DEF HasRead
  <2>3. a \in Hour /\ shown[r] \subseteq shown'[r]
    BY <1>a, <1>4, <1>8 DEF ClockTypes
  <2>4. k \in Nat /\ k \in 0 .. ticks' /\ k + 1 \in 0 .. ticks'
    BY <1>b, <1>5
  <2>5. CASE cpc[r] = "min"
    <3>1. Clock!Loading(r) /\ Clock!Loading(r)'  BY <1>8, <2>5 DEF Clock!Loading
    <3>2. Clock!Time(chip') \in shown'[r]
      BY <1>a, <1>b, <1>4, <3>1, NoSetting
    <3>3. Clock!Time(chip) = Clock!After(a, k)  BY <2>2, <2>5 DEF Stage
    <3>4. Clock!Time(chip') = Clock!After(a, k + 1)
      BY <1>3, <2>3, <2>4, <3>3, AfterOne
    <3>5. Clock!SawRun(r, a, k + 1)'
      <4>1. ASSUME NEW i \in 0 .. k + 1 PROVE Clock!After(a, i) \in shown'[r]
        <5>1. CASE i = k + 1  BY <3>2, <3>4, <5>1
        <5>2. CASE i # k + 1
          <6>1. i \in 0 .. k  BY <2>4, <5>2
          <6> QED  BY <2>2, <2>3, <6>1 DEF Clock!SawRun
        <5> QED  BY <5>1, <5>2
      <4> QED  BY <4>1 DEF Clock!SawRun
    <3>6. Stage(r, a, Clock!After(a, k + 1))'
      BY <1>b, <2>2, <2>5, <3>4 DEF Stage
    <3> QED  BY <2>2, <2>3, <2>4, <3>5, <3>6 DEF HasRead
  <2>6. CASE cpc[r] # "min"
    <3>1. Clock!SawRun(r, a, k)'  BY <2>2, <2>3 DEF Clock!SawRun
    <3>2. Stage(r, a, Clock!After(a, k))'  BY <1>b, <2>2, <2>6 DEF Stage
    <3> QED  BY <2>2, <2>3, <2>4, <3>1, <3>2 DEF HasRead
  <2> QED  BY <2>5, <2>6
<1>11. ReadsOnce'  BY <1>10 DEF ReadsOnce
<1> QED  BY <1>6, <1>7, <1>9, <1>11 DEF ClockInv

LEMMA ClockLocks ==
  ASSUME ClockInv, NEW r \in Threads, Clock!Lock(r)
  PROVE  ClockInv'
<1>a. ClockTypes /\ MutexFollowsSteps /\ SeesTheTime /\ ReadsOnce  BY DEF ClockInv
<1>b. /\ Clock!Goes(r, "idle", "sec") /\ mutex = Nobody /\ mutex' = r
      /\ spoiled' = [spoiled EXCEPT ![r] = FALSE]
      /\ UNCHANGED <<chip, ticks, static, tm, asked>> /\ Clock!Shows
  BY DEF Clock!Lock
<1>c. /\ cpc[r] = "idle" /\ cpc'[r] = "sec" /\ DOMAIN cpc' = Threads \cup Users
      /\ \A u \in Threads \cup Users : u # r => cpc'[u] = cpc[u]
  BY <1>a, <1>b, Moves
<1>1. chip' \in [Clock!Fields -> Sexagesimal]  BY <1>a, <1>b DEF ClockTypes
<1>2. /\ shown' \in [Threads -> SUBSET Hour]
      /\ \A q \in Threads :
           /\ ~Clock!Loading(q)' => shown'[q] = shown[q]
           /\ Clock!Loading(q) => shown[q] \subseteq shown'[q]
           /\ Clock!Loading(q)' /\ (\A w \in Users : cpc'[w] # "set") =>
                Clock!Time(chip') \in shown'[q]
  BY <1>a, <1>b, <1>1, WhatShows
<1>3. ClockTypes'
  BY <1>a, <1>b, <1>c, <1>2, ActorsOK DEF ClockTypes, ReaderSteps
<1>4. MutexFollowsSteps'  BY <1>a, <1>b, MutexMoves DEF Holding
<1>5. \A w \in Users : cpc'[w] # "set"
  BY <1>a, <1>b, <1>c, ActorsOK DEF MutexFollowsSteps
<1>6. SeesTheTime'  BY <1>2, <1>5 DEF SeesTheTime
<1>7. ASSUME NEW q \in Threads, cpc'[q] \notin {"idle", "sec"}, ~spoiled'[q]
      PROVE  HasRead(q)'
  <2>1. q # r /\ cpc'[q] = cpc[q]  BY <1>c, <1>7
  <2>2. shown[q] \subseteq shown'[q]
    <3>1. Clock!Loading(q) <=> Clock!Loading(q)'  BY <2>1 DEF Clock!Loading
    <3> QED  BY <1>2, <3>1
  <2>3. spoiled'[q] <=> spoiled[q]  BY <1>b, <2>1
  <2> QED  BY <1>a, <1>b, <1>7, <2>1, <2>2, <2>3, Kept
<1>8. ReadsOnce'  BY <1>7 DEF ReadsOnce
<1> QED  BY <1>3, <1>4, <1>6, <1>8 DEF ClockInv

(* A step of a read that leaves the chip alone: the invariant asks only    *)
(* what the reader itself has read.                                        *)
LEMMA OneReader ==
  ASSUME ClockInv, NEW r \in Threads, NEW from, NEW to, Clock!Goes(r, from, to),
         from # "idle", to \in ReaderSteps \ {"sec"}, to = "min" => from = "sec",
         UNCHANGED <<chip, ticks, asked>>,
         static' \in [Clock!Fields -> Byte], tm' \in [Threads -> [Clock!Fields -> Byte]],
         spoiled' \in [Threads -> BOOLEAN], shown' \in [Threads -> SUBSET Hour],
         \/ from \in Holding /\ mutex' = Nobody /\ to \notin Holding
         \/ mutex' = mutex /\ (from \in Holding <=> to \in Holding),
         to # "idle" => shown[r] \subseteq shown'[r],
         \A q \in Threads \ {r} :
           /\ tm'[q] = tm[q] /\ shown[q] \subseteq shown'[q]
           /\ cpc[q] # "idle" /\ ~spoiled'[q] => ~spoiled[q] /\ static' = static,
         to # "idle" /\ ~spoiled'[r] => HasRead(r)'
  PROVE  ClockInv'
<1>a. ClockTypes /\ MutexFollowsSteps /\ SeesTheTime /\ ReadsOnce  BY DEF ClockInv
<1>c. /\ cpc[r] = from /\ cpc'[r] = to /\ DOMAIN cpc' = Threads \cup Users
      /\ \A u \in Threads \cup Users : u # r => cpc'[u] = cpc[u]
  BY <1>a, Moves
<1>1. MutexFollowsSteps'  BY <1>a, MutexMoves
<1>2. mutex' \in Threads \cup Users \cup {Nobody}  BY <1>a DEF ClockTypes
<1>3. ClockTypes'
  BY <1>a, <1>c, <1>2, ActorsOK DEF ClockTypes
<1>4. SeesTheTime'
  <2>1. ASSUME NEW q \in Threads, Clock!Loading(q)' PROVE Clock!Time(chip') \in shown'[q]
    <3>1. CASE q = r
      <4>1. Clock!Loading(r) /\ to # "idle"  BY <1>c, <2>1, <3>1 DEF Clock!Loading
      <4> QED  BY <1>a, <3>1, <4>1 DEF SeesTheTime
    <3>2. CASE q # r
      <4>1. Clock!Loading(q)  BY <1>c, <2>1, <3>2 DEF Clock!Loading
      <4> QED  BY <1>a, <3>2, <4>1 DEF SeesTheTime
    <3> QED  BY <3>1, <3>2
  <2> QED  BY <2>1 DEF SeesTheTime
<1>5. ASSUME NEW q \in Threads \ {r}, cpc'[q] \notin {"idle", "sec"}, ~spoiled'[q]
      PROVE  HasRead(q)'
  <2>1. cpc'[q] = cpc[q]  BY <1>c
  <2> QED  BY <1>a, <1>5, <2>1, Kept
<1>6. ReadsOnce'  BY <1>c, <1>5 DEF ReadsOnce
<1> QED  BY <1>1, <1>3, <1>4, <1>6 DEF ClockInv

(* What a step that spoils the others leaves them.                         *)
LEMMA WhoIsSpoiled ==
  ASSUME ClockTypes, NEW r \in Threads, Clock!Spoils(r)
  PROVE  /\ spoiled' \in [Threads -> BOOLEAN] /\ (spoiled'[r] <=> spoiled[r])
         /\ \A q \in Threads \ {r} : cpc[q] # "idle" => spoiled'[q]
BY DEF ClockTypes, Clock!Spoils

LEMMA ClockLoads ==
  ASSUME ClockInv, NEW r \in Threads, Clock!LoadSecond(r) \/ Clock!LoadMinute(r)
  PROVE  ClockInv'
<1>a. ClockTypes /\ MutexFollowsSteps /\ SeesTheTime /\ ReadsOnce  BY DEF ClockInv
<1>1. ASSUME NEW f \in Clock!Fields, Clock!Load(r, f)
      PROVE  /\ static' = [static EXCEPT ![f] = chip[f]] /\ static' \in [Clock!Fields -> Byte]
             /\ UNCHANGED <<chip, ticks, tm, asked>>
             /\ tm' \in [Threads -> [Clock!Fields -> Byte]]
             /\ spoiled' \in [Threads -> BOOLEAN] /\ (spoiled'[r] <=> spoiled[r])
             /\ \A q \in Threads \ {r} : cpc[q] # "idle" => spoiled'[q]
             /\ shown' \in [Threads -> SUBSET Hour]
             /\ \A q \in Threads :
                  /\ ~Clock!Loading(q)' => shown'[q] = shown[q]
                  /\ Clock!Loading(q) => shown[q] \subseteq shown'[q]
  <2>1. chip[f] \in Byte  BY <1>a, SexagesimalIsByte DEF ClockTypes
  <2>2. chip' \in [Clock!Fields -> Sexagesimal]  BY <1>a, <1>1 DEF Clock!Load, ClockTypes
  <2>3. /\ shown' \in [Threads -> SUBSET Hour]
        /\ \A q \in Threads :
             /\ ~Clock!Loading(q)' => shown'[q] = shown[q]
             /\ Clock!Loading(q) => shown[q] \subseteq shown'[q]
    BY <1>a, <1>1, <2>2, WhatShows DEF Clock!Load
  <2>4. static' \in [Clock!Fields -> Byte]  BY <1>a, <1>1, <2>1 DEF Clock!Load, ClockTypes
  <2>5. tm' \in [Threads -> [Clock!Fields -> Byte]]  BY <1>a, <1>1 DEF Clock!Load, ClockTypes
  <2>6. /\ spoiled' \in [Threads -> BOOLEAN] /\ (spoiled'[r] <=> spoiled[r])
        /\ \A q \in Threads \ {r} : cpc[q] # "idle" => spoiled'[q]
    BY <1>a, <1>1, WhoIsSpoiled DEF Clock!Load
  <2> QED  BY <1>1, <2>3, <2>4, <2>5, <2>6 DEF Clock!Load
<1>2. ASSUME NEW to, Clock!Goes(r, "sec", to) \/ Clock!Goes(r, "min", to), to \in {"min", "decode sec"},
             \A q \in Threads :
               /\ ~Clock!Loading(q)' => shown'[q] = shown[q]
               /\ Clock!Loading(q) => shown[q] \subseteq shown'[q]
      PROVE  \A q \in Threads : shown[q] \subseteq shown'[q]
  <2>1. /\ cpc[r] \in {"sec", "min"}
        /\ \A u \in Threads \cup Users : u # r => cpc'[u] = cpc[u]
    BY <1>a, <1>2, Moves
  <2>2. \A q \in Threads : Clock!Loading(q) \/ ~Clock!Loading(q)'
    BY <2>1 DEF Clock!Loading
  <2> QED  BY <1>2, <2>2
<1>3. ASSUME Clock!LoadSecond(r) PROVE ClockInv'
  <2>1. Clock!Goes(r, "sec", "min") /\ mutex' = mutex /\ Clock!Load(r, "sec")
    BY <1>3 DEF Clock!LoadSecond
  <2>2. cpc[r] = "sec" /\ cpc'[r] = "min"  BY <1>a, <2>1, Moves
  <2>3. \A q \in Threads : shown[q] \subseteq shown'[q]
    BY <1>1, <1>2, <2>1 DEF Clock!Fields
  <2>4. HasRead(r)'
    <3>1. PICK a \in shown[r] : a = Clock!Time(chip)
      BY <1>a, <2>2 DEF SeesTheTime, Clock!Loading
    <3>2. a \in Hour  BY <1>a, <3>1 DEF ClockTypes
    <3>3. Clock!After(a, 0) = a  BY <3>2, AfterOne
    <3>4. Clock!SawRun(r, a, 0)'
      <4>1. \A i \in 0 .. 0 : i = 0  OBVIOUS
      <4> QED  BY <2>3, <3>1, <3>3, <4>1 DEF Clock!SawRun
    <3>5. static'["sec"] = Clock!Bcd(Clock!Field(a, "sec")) /\ Clock!Time(chip') = a
      <4>1. static'["sec"] = chip["sec"] /\ chip' = chip
        BY <1>1, <1>a, <2>1 DEF Clock!Fields, ClockTypes
      <4>2. chip["sec"] = Clock!Bcd(Clock!Field(a, "sec"))
        BY <1>a, <3>1, TimeOfRegisters DEF ClockTypes
      <4> QED  BY <3>1, <4>1, <4>2
    <3>6. Stage(r, a, Clock!After(a, 0))'  BY <2>2, <3>3, <3>5 DEF Stage
    <3>7. 0 \in 0 .. ticks'  BY <1>a, <1>1, <2>1, TimesOK DEF ClockTypes, Clock!Fields
    <3> QED  BY <2>3, <3>1, <3>4, <3>6, <3>7 DEF HasRead
  <2> QED  BY <1>1, <2>1, <2>3, <2>4, OneReader DEF Clock!Fields, ReaderSteps, Holding
<1>4. ASSUME Clock!LoadMinute(r) PROVE ClockInv'
  <2>1. Clock!Goes(r, "min", "decode sec") /\ mutex' = Nobody /\ Clock!Load(r, "min")
    BY <1>4 DEF Clock!LoadMinute
  <2>2. cpc[r] = "min" /\ cpc'[r] = "decode sec"  BY <1>a, <2>1, Moves
  <2>3. \A q \in Threads : shown[q] \subseteq shown'[q]
    BY <1>1, <1>2, <2>1 DEF Clock!Fields
  <2>4. ASSUME ~spoiled'[r] PROVE HasRead(r)'
    <3>1. ~spoiled[r]  BY <1>1, <2>1, <2>4 DEF Clock!Fields
    <3>2. PICK a \in shown[r], k \in 0 .. ticks :
            Clock!SawRun(r, a, k) /\ Stage(r, a, Clock!After(a, k))
      BY <1>a, <2>2, <3>1 DEF ReadsOnce, HasRead
    <3>3. Clock!SawRun(r, a, k)'  BY <2>3, <3>2 DEF Clock!SawRun
    <3>4. /\ static["sec"] = Clock!Bcd(Clock!Field(a, "sec"))
          /\ Clock!Time(chip) = Clock!After(a, k)
      BY <2>2, <3>2 DEF Stage
    <3>5. static'["sec"] = static["sec"] /\ static'["min"] = chip["min"]
      BY <1>1, <1>a, <2>1 DEF Clock!Fields, ClockTypes
    <3>6. chip["min"] = Clock!Bcd(Clock!Field(Clock!Time(chip), "min"))
      BY <1>a, TimeOfRegisters DEF ClockTypes
    <3>7. Stage(r, a, Clock!After(a, k))'  BY <2>2, <3>4, <3>5, <3>6 DEF Stage
    <3>8. ticks' = ticks  BY <1>1, <2>1 DEF Clock!Fields
    <3> QED  BY <2>3, <3>2, <3>3, <3>7, <3>8 DEF HasRead
  <2> QED  BY <1>1, <2>1, <2>3, <2>4, OneReader DEF Clock!Fields, ReaderSteps, Holding
<1> QED  BY <1>3, <1>4

LEMMA TicksAreNat ==
  ASSUME ClockTypes, NEW k \in 0 .. ticks
  PROVE  k \in Nat
BY TimesOK DEF ClockTypes

LEMMA ClockDecodes ==
  ASSUME ClockInv, NEW r \in Threads,
         \/ Clock!Decode(r, "sec", "decode sec", "take sec")
         \/ Clock!Decode(r, "min", "decode min", "take min")
  PROVE  ClockInv'
<1>a. ClockTypes /\ ReadsOnce  BY DEF ClockInv
<1>1. ASSUME NEW f \in Clock!Fields, NEW from, NEW to, Clock!Decode(r, f, from, to)
      PROVE  /\ static' = [static EXCEPT ![f] = Clock!Binary(static[f])]
             /\ static' \in [Clock!Fields -> Byte]
             /\ Clock!Goes(r, from, to) /\ cpc[r] = from /\ cpc'[r] = to
             /\ UNCHANGED <<chip, ticks, mutex, tm, asked, shown>>
             /\ spoiled' \in [Threads -> BOOLEAN] /\ (spoiled'[r] <=> spoiled[r])
             /\ \A q \in Threads \ {r} : cpc[q] # "idle" => spoiled'[q]
  <2>1. Clock!Binary(static[f]) \in Byte  BY <1>a, BinaryIsByte DEF ClockTypes
  <2>2. static' \in [Clock!Fields -> Byte]  BY <1>a, <1>1, <2>1 DEF Clock!Decode, ClockTypes
  <2>3. /\ spoiled' \in [Threads -> BOOLEAN] /\ (spoiled'[r] <=> spoiled[r])
        /\ \A q \in Threads \ {r} : cpc[q] # "idle" => spoiled'[q]
    BY <1>a, <1>1, WhoIsSpoiled DEF Clock!Decode
  <2>4. cpc[r] = from /\ cpc'[r] = to  BY <1>a, <1>1, Moves DEF Clock!Decode
  <2> QED  BY <1>1, <2>2, <2>3, <2>4 DEF Clock!Decode
<1>2. \A k \in 0 .. ticks : k \in Nat  BY <1>a, TicksAreNat
<1>3. ASSUME cpc[r] \notin {"idle", "sec"}, ~spoiled[r]
      PROVE  \E a \in shown[r], k \in 0 .. ticks :
               /\ a \in Hour /\ Clock!After(a, k) \in Hour
               /\ Clock!SawRun(r, a, k) /\ Stage(r, a, Clock!After(a, k))
  <2>1. PICK a \in shown[r], k \in 0 .. ticks :
          Clock!SawRun(r, a, k) /\ Stage(r, a, Clock!After(a, k))
    BY <1>a, <1>3 DEF ReadsOnce, HasRead
  <2>2. a \in Hour  BY <1>a, <2>1 DEF ClockTypes
  <2>3. k \in Nat  BY <1>2
  <2> QED  BY <2>1, <2>2, <2>3, AfterOne
<1>4. ASSUME Clock!Decode(r, "sec", "decode sec", "take sec") PROVE ClockInv'
  <2>1. ASSUME ~spoiled'[r] PROVE HasRead(r)'
    <3>1. /\ ~spoiled[r] /\ cpc[r] = "decode sec" /\ cpc'[r] = "take sec"
          /\ UNCHANGED <<ticks, shown>>
      BY <1>1, <1>4, <2>1 DEF Clock!Fields
    <3>2. PICK a \in shown[r], k \in 0 .. ticks :
            /\ a \in Hour /\ Clock!After(a, k) \in Hour
            /\ Clock!SawRun(r, a, k) /\ Stage(r, a, Clock!After(a, k))
      BY <1>3, <3>1
    <3>3. /\ static["sec"] = Clock!Bcd(Clock!Field(a, "sec"))
          /\ static["min"] = Clock!Bcd(Clock!Field(Clock!After(a, k), "min"))
      BY <3>1, <3>2 DEF Stage
    <3>4. static'["sec"] = Clock!Binary(static["sec"]) /\ static'["min"] = static["min"]
      BY <1>a, <1>1, <1>4 DEF Clock!Fields, ClockTypes
    <3>5. static'["sec"] = Clock!Field(a, "sec")  BY <3>2, <3>3, <3>4, FieldRoundTrip
    <3>6. Stage(r, a, Clock!After(a, k))'  BY <3>1, <3>3, <3>4, <3>5 DEF Stage
    <3>7. Clock!SawRun(r, a, k)'  BY <3>1, <3>2 DEF Clock!SawRun
    <3> QED  BY <3>1, <3>2, <3>6, <3>7 DEF HasRead
  <2> QED  BY <1>a, <1>1, <1>4, <2>1, OneReader DEF Clock!Fields, ReaderSteps, Holding, ClockTypes
<1>5. ASSUME Clock!Decode(r, "min", "decode min", "take min") PROVE ClockInv'
  <2>1. ASSUME ~spoiled'[r] PROVE HasRead(r)'
    <3>1. /\ ~spoiled[r] /\ cpc[r] = "decode min" /\ cpc'[r] = "take min"
          /\ UNCHANGED <<ticks, shown, tm>>
      BY <1>1, <1>5, <2>1 DEF Clock!Fields
    <3>2. PICK a \in shown[r], k \in 0 .. ticks :
            /\ a \in Hour /\ Clock!After(a, k) \in Hour
            /\ Clock!SawRun(r, a, k) /\ Stage(r, a, Clock!After(a, k))
      BY <1>3, <3>1
    <3>3. /\ tm[r]["sec"] = Clock!Field(a, "sec")
          /\ static["min"] = Clock!Bcd(Clock!Field(Clock!After(a, k), "min"))
      BY <3>1, <3>2 DEF Stage
    <3>4. static'["min"] = Clock!Binary(static["min"])
      BY <1>a, <1>1, <1>5 DEF Clock!Fields, ClockTypes
    <3>5. static'["min"] = Clock!Field(Clock!After(a, k), "min")  BY <3>2, <3>3, <3>4, FieldRoundTrip
    <3>6. Stage(r, a, Clock!After(a, k))'  BY <3>1, <3>3, <3>5 DEF Stage
    <3>7. Clock!SawRun(r, a, k)'  BY <3>1, <3>2 DEF Clock!SawRun
    <3> QED  BY <3>1, <3>2, <3>6, <3>7 DEF HasRead
  <2> QED  BY <1>a, <1>1, <1>5, <2>1, OneReader DEF Clock!Fields, ReaderSteps, Holding, ClockTypes
<1> QED  BY <1>4, <1>5

LEMMA ClockTakes ==
  ASSUME ClockInv, NEW r \in Threads,
         \/ Clock!Take(r, "sec", "take sec", "decode min")
         \/ Clock!Take(r, "min", "take min", "read")
  PROVE  ClockInv'
<1>a. ClockTypes /\ ReadsOnce  BY DEF ClockInv
<1>1. ASSUME NEW f \in Clock!Fields, NEW from, NEW to, Clock!Take(r, f, from, to)
      PROVE  /\ Clock!Goes(r, from, to) /\ cpc[r] = from /\ cpc'[r] = to
             /\ UNCHANGED <<chip, ticks, mutex, static, asked, shown, spoiled>>
             /\ tm' \in [Threads -> [Clock!Fields -> Byte]]
             /\ tm'[r] = [tm[r] EXCEPT ![f] = static[f]]
             /\ \A q \in Threads \ {r} : tm'[q] = tm[q]
  <2>1. tm[r] \in [Clock!Fields -> Byte] /\ static[f] \in Byte  BY <1>a DEF ClockTypes
  <2>2. [tm[r] EXCEPT ![f] = static[f]] \in [Clock!Fields -> Byte]  BY <2>1
  <2>3. tm' = [tm EXCEPT ![r] = [tm[r] EXCEPT ![f] = static[f]]]  BY <1>1 DEF Clock!Take
  <2>4. /\ tm' \in [Threads -> [Clock!Fields -> Byte]]
        /\ tm'[r] = [tm[r] EXCEPT ![f] = static[f]]
        /\ \A q \in Threads \ {r} : tm'[q] = tm[q]
    BY <1>a, <2>2, <2>3 DEF ClockTypes
  <2>5. cpc[r] = from /\ cpc'[r] = to  BY <1>a, <1>1, Moves DEF Clock!Take
  <2> QED  BY <1>1, <2>4, <2>5 DEF Clock!Take
<1>2. ASSUME NEW f \in Clock!Fields, NEW from, NEW to, Clock!Take(r, f, from, to), ~spoiled'[r],
             \/ f = "sec" /\ from = "take sec" /\ to = "decode min"
             \/ f = "min" /\ from = "take min" /\ to = "read"
      PROVE  HasRead(r)'
  <2>1. ~spoiled[r] /\ UNCHANGED <<ticks, shown, static>>  BY <1>1, <1>2
  <2>2. cpc[r] = from /\ cpc'[r] = to /\ tm'[r] = [tm[r] EXCEPT ![f] = static[f]]
    BY <1>1, <1>2
  <2>3. PICK a \in shown[r], k \in 0 .. ticks :
          Clock!SawRun(r, a, k) /\ Stage(r, a, Clock!After(a, k))
    BY <1>a, <1>2, <2>1, <2>2 DEF ReadsOnce, HasRead
  <2>4. /\ f = "sec" => tm'[r]["sec"] = static["sec"]
        /\ f = "min" => tm'[r]["min"] = static["min"] /\ tm'[r]["sec"] = tm[r]["sec"]
    <3>1. tm[r] \in [Clock!Fields -> Byte]  BY <1>a DEF ClockTypes
    <3> QED  BY <2>2, <3>1 DEF Clock!Fields
  <2>5. Stage(r, a, Clock!After(a, k))'  BY <1>2, <2>1, <2>2, <2>3, <2>4 DEF Stage
  <2>6. Clock!SawRun(r, a, k)'  BY <2>1, <2>3 DEF Clock!SawRun
  <2> QED  BY <2>1, <2>3, <2>5, <2>6 DEF HasRead
<1>3. ASSUME Clock!Take(r, "sec", "take sec", "decode min") PROVE ClockInv'
  <2>1. /\ Clock!Goes(r, "take sec", "decode min")
        /\ UNCHANGED <<chip, ticks, mutex, static, asked, shown, spoiled>>
        /\ tm' \in [Threads -> [Clock!Fields -> Byte]]
        /\ \A q \in Threads \ {r} : tm'[q] = tm[q]
    BY <1>1, <1>3 DEF Clock!Fields
  <2>2. /\ static' \in [Clock!Fields -> Byte] /\ spoiled' \in [Threads -> BOOLEAN]
        /\ shown' \in [Threads -> SUBSET Hour]
    BY <1>a, <2>1 DEF ClockTypes
  <2>3. ~spoiled'[r] => HasRead(r)'  BY <1>2, <1>3 DEF Clock!Fields
  <2> QED  BY <2>1, <2>2, <2>3, OneReader DEF ReaderSteps, Holding
<1>4. ASSUME Clock!Take(r, "min", "take min", "read") PROVE ClockInv'
  <2>1. /\ Clock!Goes(r, "take min", "read")
        /\ UNCHANGED <<chip, ticks, mutex, static, asked, shown, spoiled>>
        /\ tm' \in [Threads -> [Clock!Fields -> Byte]]
        /\ \A q \in Threads \ {r} : tm'[q] = tm[q]
    BY <1>1, <1>4 DEF Clock!Fields
  <2>2. /\ static' \in [Clock!Fields -> Byte] /\ spoiled' \in [Threads -> BOOLEAN]
        /\ shown' \in [Threads -> SUBSET Hour]
    BY <1>a, <2>1 DEF ClockTypes
  <2>3. ~spoiled'[r] => HasRead(r)'  BY <1>2, <1>4 DEF Clock!Fields
  <2> QED  BY <2>1, <2>2, <2>3, OneReader DEF ReaderSteps, Holding
<1> QED  BY <1>3, <1>4

(* copy_to_user: the reader forgets what it saw.                           *)
LEMMA ClockReturns ==
  ASSUME ClockInv, NEW r \in Threads, Clock!Return(r)
  PROVE  ClockInv'
<1>a. ClockTypes  BY DEF ClockInv
<1>1. /\ Clock!Goes(r, "read", "idle")
      /\ tm' = [tm EXCEPT ![r] = Clock!Zero] /\ shown' = [shown EXCEPT ![r] = {}]
      /\ UNCHANGED <<chip, ticks, mutex, static, asked, spoiled>>
  BY DEF Clock!Return
<1>2. Clock!Zero \in [Clock!Fields -> Byte]
  <2>1. 0 \in Byte  BY DEF Byte
  <2> QED  BY <2>1 DEF Clock!Zero
<1>3. /\ tm' \in [Threads -> [Clock!Fields -> Byte]] /\ static' \in [Clock!Fields -> Byte]
      /\ spoiled' \in [Threads -> BOOLEAN] /\ shown' \in [Threads -> SUBSET Hour]
      /\ \A q \in Threads \ {r} : tm'[q] = tm[q] /\ shown'[q] = shown[q]
  BY <1>a, <1>1, <1>2 DEF ClockTypes
<1> QED  BY <1>1, <1>3, OneReader DEF ReaderSteps, Holding

(* A writer at the registers: no reader loads, so none is concerned.       *)
LEMMA OneWriter ==
  ASSUME ClockInv, NEW w \in Users, NEW from, NEW to, Clock!Goes(w, from, to),
         \/ from = "idle" /\ to = "set" /\ mutex = Nobody /\ mutex' = w
         \/ from = "set" /\ to = "idle" /\ mutex' = Nobody,
         UNCHANGED <<ticks, static, tm, spoiled>>, Clock!Shows,
         chip' \in [Clock!Fields -> Sexagesimal],
         asked' \in [Users -> Settings \cup {Start}]
  PROVE  ClockInv'
<1>a. ClockTypes /\ MutexFollowsSteps /\ ReadsOnce  BY DEF ClockInv
<1>c. /\ cpc[w] = from /\ cpc'[w] = to /\ DOMAIN cpc' = Threads \cup Users
      /\ \A u \in Threads \cup Users : u # w => cpc'[u] = cpc[u]
  BY <1>a, Moves
<1>1. ASSUME NEW q \in Threads PROVE cpc'[q] = cpc[q] /\ ~Clock!Loading(q) /\ ~Clock!Loading(q)'
  BY <1>a, <1>c, ActorsOK DEF MutexFollowsSteps, Clock!Loading
<1>2. /\ shown' \in [Threads -> SUBSET Hour] /\ \A q \in Threads : shown'[q] = shown[q]
  BY <1>a, <1>1, WhatShows
<1>3. MutexFollowsSteps'  BY <1>a, MutexMoves DEF Holding
<1>4. mutex' \in Threads \cup Users \cup {Nobody}  OBVIOUS
<1>5. ClockTypes'
  BY <1>a, <1>c, <1>1, <1>2, <1>4 DEF ClockTypes
<1>6. SeesTheTime'  BY <1>1 DEF SeesTheTime
<1>7. ASSUME NEW q \in Threads, cpc'[q] \notin {"idle", "sec"}, ~spoiled'[q]
      PROVE  HasRead(q)'
  <2>1. cpc[q] # "min"  BY <1>1 DEF Clock!Loading
  <2> QED  BY <1>a, <1>1, <1>2, <1>7, <2>1, Kept
<1>8. ReadsOnce'  BY <1>7 DEF ReadsOnce
<1> QED  BY <1>3, <1>5, <1>6, <1>8 DEF ClockInv

LEMMA ClockSets ==
  ASSUME ClockInv, NEW w \in Users, Clock!SetSecond(w) \/ Clock!SetMinute(w)
  PROVE  ClockInv'
<1>a. ClockTypes  BY DEF ClockInv
<1>1. ASSUME NEW time \in Settings \cup {Start}, NEW f \in Clock!Fields
      PROVE  Clock!Bcd(Clock!Field(time, f)) \in Sexagesimal
  <2>1. time \in Hour  BY TimesOK DEF Hour
  <2>2. Clock!Field(time, f) \in 0 .. 59  BY <2>1, FieldsOfTime DEF Clock!Fields
  <2> QED  BY <2>2 DEF Sexagesimal
<1>2. ASSUME Clock!SetSecond(w) PROVE ClockInv'
  <2>1. PICK time \in Settings :
          /\ asked' = [asked EXCEPT ![w] = time]
          /\ chip' = [chip EXCEPT !["sec"] = Clock!Bcd(Clock!Field(time, "sec"))]
    BY <1>2 DEF Clock!SetSecond
  <2>2. Clock!Bcd(Clock!Field(time, "sec")) \in Sexagesimal  BY <1>1 DEF Clock!Fields
  <2>3. chip' \in [Clock!Fields -> Sexagesimal] /\ asked' \in [Users -> Settings \cup {Start}]
    BY <1>a, <2>1, <2>2 DEF ClockTypes
  <2>4. /\ Clock!Goes(w, "idle", "set") /\ mutex = Nobody /\ mutex' = w
        /\ UNCHANGED <<ticks, static, tm, spoiled>> /\ Clock!Shows
    BY <1>2 DEF Clock!SetSecond
  <2> QED  BY <2>3, <2>4, OneWriter
<1>3. ASSUME Clock!SetMinute(w) PROVE ClockInv'
  <2>1. asked[w] \in Settings \cup {Start}  BY <1>a DEF ClockTypes
  <2>2. Clock!Bcd(Clock!Field(asked[w], "min")) \in Sexagesimal  BY <1>1, <2>1 DEF Clock!Fields
  <2>3. /\ Clock!Goes(w, "set", "idle") /\ mutex' = Nobody
        /\ chip' = [chip EXCEPT !["min"] = Clock!Bcd(Clock!Field(asked[w], "min"))]
        /\ asked' = [asked EXCEPT ![w] = Start]
        /\ UNCHANGED <<ticks, static, tm, spoiled>> /\ Clock!Shows
    BY <1>3 DEF Clock!SetMinute
  <2>4. chip' \in [Clock!Fields -> Sexagesimal] /\ asked' \in [Users -> Settings \cup {Start}]
    BY <1>a, <2>2, <2>3 DEF ClockTypes
  <2> QED  BY <2>3, <2>4, OneWriter
<1> QED  BY <1>2, <1>3

LEMMA ClockStep == ClockInv /\ [Clock!Next]_clockVars => ClockInv'
<1>1. ASSUME ClockInv, UNCHANGED clockVars PROVE ClockInv'
  <2>1. UNCHANGED <<chip, ticks, mutex, static, cpc, tm, asked, shown, spoiled>>
    BY <1>1 DEF clockVars
  <2>2. ClockTypes' /\ MutexFollowsSteps' /\ SeesTheTime'
    BY <1>1, <2>1 DEF ClockInv, ClockTypes, MutexFollowsSteps, SeesTheTime, Clock!Loading
  <2>3. ASSUME NEW r \in Threads, cpc'[r] \notin {"idle", "sec"}, ~spoiled'[r]
        PROVE  HasRead(r)'
    BY <1>1, <2>1, <2>3, Kept DEF ClockInv
  <2>4. ReadsOnce'  BY <2>3 DEF ReadsOnce
  <2> QED  BY <2>2, <2>4 DEF ClockInv
<1>2. ASSUME ClockInv, NEW r \in Threads, Clock!Read(r) PROVE ClockInv'
  BY <1>2, ClockLocks, ClockLoads, ClockDecodes, ClockTakes, ClockReturns DEF Clock!Read
<1> QED  BY <1>1, <1>2, ClockTicks, ClockSets DEF Clock!Next

LEMMA ClockMeets == ClockInv => Clock!TypeOK /\ Clock!ReadIsShown
<1> SUFFICES ASSUME ClockInv PROVE Clock!TypeOK /\ Clock!ReadIsShown
  OBVIOUS
<1> USE DEF ClockInv
<1>1. Clock!TypeOK
  <2>1. chip \in [Clock!Fields -> Byte]  BY SexagesimalIsByte DEF ClockTypes
  <2> QED  BY <2>1 DEF ClockTypes, Clock!TypeOK, Byte
<1>2. ASSUME NEW r \in Threads, cpc[r] = "read", ~spoiled[r]
      PROVE  \E a \in shown[r], k \in 0 .. ticks :
               /\ Clock!SawRun(r, a, k)
               /\ tm[r]["sec"] = Clock!Field(a, "sec")
               /\ tm[r]["min"] = Clock!Field(Clock!After(a, k), "min")
  BY <1>2 DEF ReadsOnce, HasRead, Stage
<1> QED  BY <1>1, <1>2 DEF Clock!ReadIsShown

-----------------------------------------------------------------------------
(* The devices side by side.  The weight sensor and the lamp meet at the   *)
(* lines; the other two rest while another one moves.                      *)

(* What a step of the weight sensor does to the lines.                     *)
LEMMA GateLines ==
  ASSUME IInv, Next
  PROVE  /\ lines' = lines
         /\ \A l \in Lines : owner'[l] \in {owner[l], Nobody} \cup Procs
         /\ \A l \in Lines \ {lines.data, lines.clock} :
              owner'[l] = owner[l] /\ output'[l] = output[l]
<1>1. PICK p \in Procs :
        \/ DecAndTest(p) \/ Busy(p) \/ RequestData(p) \/ RequestClock(p) \/ Drive(p)
        \/ FreeClock(p) \/ FreeData(p) \/ Release(p)
  BY DEF Next
<1> USE DEF IInv, Types
<1>2. CASE DecAndTest(p) \/ Busy(p) \/ Release(p)
  BY <1>2 DEF DecAndTest, Busy, Release, lineVars
<1>3. CASE RequestData(p)
  BY <1>3, WiredLines DEF RequestData, RequestIn, lineVars
<1>4. CASE RequestClock(p)
  BY <1>4, WiredLines DEF RequestClock, RequestOut, lineVars
<1>5. CASE Drive(p)
  BY <1>5, WiredLines DEF Drive, gpio_direction_output, gpio_direction_input, gpio_set_value
<1>6. CASE FreeClock(p) \/ FreeData(p)
  BY <1>6, WiredLines DEF FreeClock, FreeData, gpio_free
<1> QED  BY <1>1, <1>2, <1>3, <1>4, <1>5, <1>6

(* A step of the weight sensor that moves a line of the lamp marks the     *)
(* writes under way, and leaves the others alone.                          *)
LEMMA GateKeepsLamp ==
  ASSUME IInv, IInv', LampInv, LampSees
  PROVE  LampInv'
<1>1. /\ Lamp!Follows /\ Lamp!DisturbsOthers(Nobody)
      /\ UNCHANGED <<upc, pulses, val, ready>>
  BY DEF LampSees
<1>2. wiper' \in 0 .. Top /\ disturbed' \in [Users -> BOOLEAN] /\ OthersSafe(Nobody)
  BY <1>1, SeenByLamp
<1>3. LampTypes'  BY <1>1, <1>2 DEF IInv, Types, LampInv, LampTypes
<1>4. Nobody \notin Users  BY ActorsOK
<1> QED  BY <1>1, <1>2, <1>3, <1>4, OneMoves

(* What a step of the lamp does to the lines: it requests and frees its    *)
(* own, and makes no line an input.                                        *)
LEMMA LampLinesMove ==
  ASSUME IInv, Lamp!Next
  PROVE  /\ owner' = [l \in Lines |-> owner'[l]]
         /\ \A l \in Lines : owner'[l] # owner[l] =>
              l \in Lamp!LampLines /\ owner'[l] \in Users \cup {Nobody}
<1>1. PICK u \in Users : Lamp!Open(u) \/ Lamp!Release(u) \/ Lamp!Write(u)
  BY DEF Lamp!Next
<1> USE DEF IInv, Types
<1>2. ASSUME NEW l \in Lamp!LampLines, NEW from, NEW to, Lamp!Request(u, l, from, to)
      PROVE  owner' \in {owner, [owner EXCEPT ![l] = u]}
  BY <1>2 DEF Lamp!Request, Lamp!RequestOut, Lamp!lineVars
<1>3. ASSUME NEW l \in Lamp!LampLines, NEW from, NEW to, Lamp!Free(u, l, from, to)
      PROVE  owner' = [owner EXCEPT ![l] = Nobody]
  BY <1>3 DEF Lamp!Free, Lamp!gpio_free
<1>4. CASE Lamp!Open(u)
  <2>1. PICK l \in Lamp!LampLines : owner' \in {owner, [owner EXCEPT ![l] = u]}
    BY <1>2, <1>4, LampLinesDiffer DEF Lamp!Open
  <2> QED  BY <2>1
<1>5. CASE Lamp!Release(u)
  <2>1. PICK l \in Lamp!LampLines : owner' = [owner EXCEPT ![l] = Nobody]
    BY <1>3, <1>5, LampLinesDiffer DEF Lamp!Release
  <2> QED  BY <2>1
<1>6. CASE Lamp!Write(u)
  <2>1. owner' = owner
    BY <1>6 DEF Lamp!Write, Lamp!Select, Lamp!Down, Lamp!Low, Lamp!High, Lamp!Up, Lamp!UpLow,
       Lamp!UpHigh, Lamp!Deselect, Lamp!Return, Lamp!Drive, Lamp!gpio_set_value, Lamp!lineVars
  <2> QED  BY <2>1
<1> QED  BY <1>1, <1>4, <1>5, <1>6

LEMMA LampKeepsGate ==
  ASSUME IInv, LampInv', Lamp!Next, UNCHANGED <<weightfd, lines, pc>>
  PROVE  IInv'
<1>1. Shared = Lamp!LampLines  BY LampLinesOK, LampLinesDiffer
<1>2. \A l \in Lines : owner'[l] # owner[l] => l \in Shared /\ owner'[l] \notin Procs
  BY <1>1, LampLinesMove, ActorsOK, ProcsOK
<1>3. output' \in [Lines -> BOOLEAN] /\ level' \in [Lines -> {0, 1}]
  BY DEF LampInv, LampTypes
<1> QED  BY <1>2, <1>3, LampLinesMove, OthersKeepGate

(* A weight sensor with lines of its own leaves the lamp the lines it has  *)
(* requested: they stay outputs, and every write finds them so.            *)
Apart == {lines.data, lines.clock} \cap Lamp!LampLines = {}

Requested(u) ==
  IF upc[u] = "closed" THEN {}
  ELSE IF upc[u] = "request cs" THEN {UD}
  ELSE IF upc[u] = "request inc" THEN {UD, CS}
  ELSE Lamp!LampLines

LinesDriven ==
  /\ \A l \in Lamp!LampLines : owner[l] # Nobody => output[l]
  /\ \A u \in Users : \A l \in Requested(u) : output[l]
  /\ \A u \in Users : upc[u] \in Lamp!Writing => ready[u]

OwnerTypes == owner \in [Lines -> Procs \cup Users \cup {Nobody}]

BoardInv == OwnerTypes /\ (Apart => LinesDriven)

LEMMA BoardInit == DevicesInit => BoardInv
<1> SUFFICES ASSUME DevicesInit PROVE BoardInv
  OBVIOUS
<1>1. OwnerTypes  BY DEF DevicesInit, Init, GpioInit, OwnerTypes
<1>2. \A l \in Lamp!LampLines : owner[l] = Nobody
  BY LampLinesDiffer DEF DevicesInit, Init, GpioInit
<1>3. \A u \in Users : upc[u] = "closed"  BY DEF DevicesInit, Lamp!Init
<1>4. LinesDriven  BY <1>2, <1>3 DEF LinesDriven, Requested, Lamp!Writing
<1> QED  BY <1>1, <1>4 DEF BoardInv

LEMMA GateKeepsBoard ==
  ASSUME IInv, IInv', BoardInv, GateMoves
  PROVE  BoardInv'
<1>1. Next /\ UNCHANGED <<upc, ready>>  BY DEF GateMoves, LampSees
<1>2. owner' = [l \in Lines |-> owner'[l]]  BY DEF IInv, Types
<1>3. OwnerTypes'  BY <1>1, <1>2, GateLines DEF BoardInv, OwnerTypes
<1>4. ASSUME Apart' PROVE LinesDriven'
  <2>1. Apart /\ LinesDriven  BY <1>1, <1>4, GateLines DEF Apart, BoardInv
  <2>2. \A l \in Lamp!LampLines : owner'[l] = owner[l] /\ output'[l] = output[l]
    BY <1>1, <2>1, GateLines, LampLinesDiffer DEF Apart
  <2>3. \A u \in Users : Requested(u)' = Requested(u) /\ Requested(u) \subseteq Lamp!LampLines
    BY <1>1, LampLinesDiffer DEF Requested, Lamp!LampLines
  <2> QED  BY <1>1, <2>1, <2>2, <2>3 DEF LinesDriven
<1> QED  BY <1>3, <1>4 DEF BoardInv

LEMMA LampKeepsBoard ==
  ASSUME IInv, LampInv, LampInv', BoardInv, Lamp!Next, lines' = lines
  PROVE  BoardInv'
<1>1. OwnerTypes'  BY LampLinesMove DEF BoardInv, OwnerTypes
<1>2. PICK u \in Users : Lamp!Open(u) \/ Lamp!Release(u) \/ Lamp!Write(u)
  BY DEF Lamp!Next
<1>t. /\ owner = [l \in Lines |-> owner[l]]
      /\ LampTypes /\ LampTypes'
  BY DEF IInv, Types, LampInv
<1> SUFFICES ASSUME LinesDriven PROVE LinesDriven'
  <2>1. Apart' = Apart  BY DEF Apart
  <2> QED  BY <1>1, <2>1 DEF BoardInv
<1>3. ASSUME \A l \in Lamp!LampLines : output[l] => output'[l],
             \A l \in Lamp!LampLines : owner'[l] # Nobody => output'[l],
             \A l \in Requested(u)' : output'[l],
             \A w \in Users \ {u} : upc'[w] = upc[w] /\ ready'[w] = ready[w],
             upc'[u] \in Lamp!Writing => ready'[u]
      PROVE  LinesDriven'
  <2>1. ASSUME NEW w \in Users \ {u}, NEW l \in Requested(w)' PROVE output'[l]
    <3>1. l \in Requested(w) /\ l \in Lamp!LampLines
      BY <1>3, <2>1, LampLinesDiffer DEF Requested, Lamp!LampLines
    <3> QED  BY <1>3, <3>1 DEF LinesDriven
  <2> QED  BY <1>3, <2>1 DEF LinesDriven
<1>4. ASSUME NEW l \in Lamp!LampLines, NEW from \in LampSteps, NEW to \in LampSteps \ Lamp!Writing,
             Lamp!Request(u, l, from, to),
             upc[u] = from /\ upc'[u] = to => Requested(u)' \subseteq Requested(u) \cup {l}
      PROVE  LinesDriven'
  <2>1. upc[u] = from /\ upc'[u] = to /\ \A w \in Users \ {u} : upc'[w] = upc[w]
    BY <1>4, <1>t DEF Lamp!Request, Lamp!Goes, LampTypes
  <2>2. ready' = ready  BY <1>4 DEF Lamp!Request
  <2>3. Lamp!RequestOut(u, l, 1) /\ l \in Lines  BY <1>4, LampLinesDiffer DEF Lamp!Request
  <2>4. CASE owner[l] = Nobody
    <3>1. output' = [output EXCEPT ![l] = TRUE] /\ owner' = [owner EXCEPT ![l] = u]
      BY <2>3, <2>4 DEF Lamp!RequestOut
    <3>2. /\ \A k \in Lines : output'[k] = IF k = l THEN TRUE ELSE output[k]
          /\ \A k \in Lines : k # l => owner'[k] = owner[k]
      BY <3>1, <1>t DEF LampTypes
    <3>3. \A k \in Lamp!LampLines : output[k] => output'[k]  BY <3>2, LampLinesDiffer
    <3>4. \A k \in Lamp!LampLines : owner'[k] # Nobody => output'[k]
      BY <3>2, LampLinesDiffer DEF LinesDriven
    <3>5. \A k \in Requested(u)' : output'[k]
      <4>1. \A k \in Requested(u) : k \in Lamp!LampLines /\ output[k]
        BY LampLinesDiffer DEF Requested, LinesDriven, Lamp!LampLines
      <4> QED  BY <1>4, <2>1, <3>2, <3>3, <4>1, LampLinesDiffer
    <3> QED  BY <1>3, <1>4, <2>1, <2>2, <3>3, <3>4, <3>5
  <2>5. CASE owner[l] # Nobody
    <3>1. output' = output /\ owner' = owner  BY <2>3, <2>5 DEF Lamp!RequestOut, Lamp!lineVars
    <3>2. output[l]  BY <1>4, <2>5 DEF LinesDriven
    <3>3. \A k \in Requested(u)' : output'[k]  BY <1>4, <2>1, <3>1, <3>2 DEF LinesDriven
    <3>4. \A k \in Lamp!LampLines : owner'[k] # Nobody => output'[k]
      BY <3>1 DEF LinesDriven
    <3> QED  BY <1>3, <1>4, <2>1, <2>2, <3>1, <3>3, <3>4
  <2> QED  BY <2>4, <2>5
<1>5. CASE Lamp!Open(u)
  <2>1. CASE Lamp!Request(u, UD, "closed", "request cs")
    BY <1>4, <2>1, LampLinesDiffer DEF Requested, LampSteps, Lamp!Writing
  <2>2. CASE Lamp!Request(u, CS, "request cs", "request inc")
    BY <1>4, <2>2, LampLinesDiffer DEF Requested, LampSteps, Lamp!Writing
  <2>3. CASE Lamp!Request(u, INC, "request inc", "open")
    BY <1>4, <2>3, LampLinesDiffer DEF Requested, LampSteps, Lamp!Writing
  <2> QED  BY <1>5, <2>1, <2>2, <2>3 DEF Lamp!Open
<1>6. ASSUME NEW l \in Lamp!LampLines, NEW from \in {"open", "free cs", "free inc"},
             NEW to \in {"free cs", "free inc", "closed"}, Lamp!Free(u, l, from, to)
      PROVE  LinesDriven'
  <2>1. upc[u] = from /\ upc'[u] = to /\ \A w \in Users \ {u} : upc'[w] = upc[w]
    BY <1>6, <1>t DEF Lamp!Free, Lamp!Goes, LampTypes
  <2>2. ready' = ready /\ output' = output /\ owner' = [owner EXCEPT ![l] = Nobody]
    BY <1>6 DEF Lamp!Free, Lamp!gpio_free
  <2>3. \A k \in Lines : owner'[k] # Nobody => owner'[k] = owner[k]  BY <2>2, <1>t
  <2>4. \A k \in Lamp!LampLines : owner'[k] # Nobody => output'[k]
    BY <2>2, <2>3, LampLinesDiffer DEF LinesDriven
  <2>5. Requested(u)' \subseteq Requested(u)  BY <1>6, <2>1 DEF Requested
  <2>6. \A k \in Requested(u)' : output'[k]  BY <2>2, <2>5 DEF LinesDriven
  <2>7. upc'[u] \notin Lamp!Writing  BY <1>6, <2>1 DEF Lamp!Writing
  <2> QED  BY <1>3, <2>1, <2>2, <2>4, <2>6, <2>7
<1>7. CASE Lamp!Release(u)
  BY <1>6, <1>7, LampLinesDiffer DEF Lamp!Release
<1>8. ASSUME owner' = owner, output' = output,
             upc[u] \notin {"closed", "request cs", "request inc"},
             upc'[u] \notin {"closed", "request cs", "request inc"},
             \A w \in Users \ {u} : upc'[w] = upc[w] /\ ready'[w] = ready[w],
             upc'[u] \in Lamp!Writing => ready'[u]
      PROVE  LinesDriven'
  <2>1. Requested(u)' = Requested(u)  BY <1>8 DEF Requested
  <2>2. \A k \in Requested(u)' : output'[k]  BY <1>8, <2>1 DEF LinesDriven
  <2>3. \A k \in Lamp!LampLines : owner'[k] # Nobody => output'[k]
    BY <1>8 DEF LinesDriven
  <2> QED  BY <1>3, <1>8, <2>2, <2>3
<1>9. CASE Lamp!Select(u)
  <2>1. /\ owner' = owner /\ output' = output
        /\ upc[u] = "open" /\ upc'[u] = "down" /\ ready'[u] = Lamp!Driven(output)
        /\ \A w \in Users \ {u} : upc'[w] = upc[w] /\ ready'[w] = ready[w]
    BY <1>9, <1>t DEF Lamp!Select, Lamp!gpio_set_value, Lamp!Goes, LampTypes
  <2>2. Lamp!Driven(output)  BY <2>1 DEF LinesDriven, Requested, Lamp!Driven
  <2> QED  BY <1>8, <2>1, <2>2
<1>10. CASE Lamp!Return(u)
  <2>1. /\ owner' = owner /\ output' = output /\ upc[u] = "written" /\ upc'[u] = "open"
        /\ \A w \in Users \ {u} : upc'[w] = upc[w] /\ ready'[w] = ready[w]
    BY <1>10, <1>t DEF Lamp!Return, Lamp!lineVars, Lamp!Goes, LampTypes
  <2> QED  BY <1>8, <2>1 DEF Lamp!Writing
<1>11. CASE \/ Lamp!Down(u) \/ Lamp!Low(u) \/ Lamp!High(u) \/ Lamp!Up(u)
            \/ Lamp!UpLow(u) \/ Lamp!UpHigh(u) \/ Lamp!Deselect(u)
  <2>1. /\ owner' = owner /\ output' = output /\ ready' = ready
        /\ upc[u] \in Lamp!Writing /\ upc'[u] \in Lamp!Writing
        /\ \A w \in Users \ {u} : upc'[w] = upc[w]
    BY <1>11, <1>t DEF Lamp!Down, Lamp!Low, Lamp!High, Lamp!Up, Lamp!UpLow, Lamp!UpHigh,
       Lamp!Deselect, Lamp!Drive, Lamp!gpio_set_value, Lamp!Goes, LampTypes, Lamp!Writing
  <2>2. ready[u]  BY <2>1 DEF LinesDriven
  <2> QED  BY <1>8, <2>1, <2>2 DEF Lamp!Writing
<1> QED  BY <1>2, <1>5, <1>7, <1>9, <1>10, <1>11 DEF Lamp!Write

DevicesInv == IInv /\ SensorInv /\ ClockInv /\ LampInv /\ BoardInv

LEMMA DevicesStep ==
  DevicesInv /\ [DevicesNext]_<<vars, sensorVars, clockVars, lampVars>> => DevicesInv'
<1> USE DEF DevicesInv
<1>1. ASSUME DevicesInv, GateMoves PROVE DevicesInv'
  <2>1. IInv'  BY <1>1, StepInductive DEF GateMoves
  <2>2. LampInv'  BY <1>1, <2>1, GateKeepsLamp DEF GateMoves
  <2>3. BoardInv'  BY <1>1, <2>1, GateKeepsBoard
  <2>4. SensorInv' /\ ClockInv'  BY <1>1, SensorStep, ClockStep DEF GateMoves
  <2> QED  BY <2>1, <2>2, <2>3, <2>4
<1>2. ASSUME DevicesInv, LampMoves PROVE DevicesInv'
  <2>1. LampInv'  BY <1>2, LampStep DEF LampMoves
  <2>2. IInv'  BY <1>2, <2>1, LampKeepsGate DEF LampMoves
  <2>3. BoardInv'  BY <1>2, <2>1, LampKeepsBoard DEF LampMoves
  <2>4. SensorInv' /\ ClockInv'  BY <1>2, SensorStep, ClockStep DEF LampMoves
  <2> QED  BY <2>1, <2>2, <2>3, <2>4
<1>3. ASSUME DevicesInv, UNCHANGED <<vars, lampVars>>
      PROVE  IInv' /\ LampInv' /\ BoardInv'
  <2>1. UNCHANGED <<owner, output, level, lines, upc, ready>>
    BY <1>3 DEF vars, lampVars
  <2>2. IInv'  BY <1>3, StepInductive
  <2>3. LampInv'  BY <1>3, <2>1, LampStep DEF lampVars
  <2>4. BoardInv'
    BY <1>3, <2>1 DEF BoardInv, OwnerTypes, Apart, LinesDriven, Requested
  <2> QED  BY <2>2, <2>3, <2>4
<1>4. ASSUME DevicesInv, SensorMoves PROVE DevicesInv'
  BY <1>3, <1>4, SensorStep, ClockStep DEF SensorMoves
<1>5. ASSUME DevicesInv, ClockMoves PROVE DevicesInv'
  BY <1>3, <1>5, SensorStep, ClockStep DEF ClockMoves
<1>6. ASSUME DevicesInv, UNCHANGED <<vars, sensorVars, clockVars, lampVars>> PROVE DevicesInv'
  BY <1>3, <1>6, SensorStep, ClockStep
<1> QED  BY <1>1, <1>2, <1>4, <1>5, <1>6 DEF DevicesNext

LEMMA DevicesInductive == DevicesSpec => []DevicesInv
<1>1. DevicesInit => DevicesInv
  BY InitInductive, SensorInit, ClockInit, LampInit, BoardInit DEF DevicesInit, DevicesInv
<1> QED  BY <1>1, DevicesStep, PTL DEF DevicesSpec

(* weight_open and its siblings, with the lamp in use on the same lines:   *)
(* no earlier opener of the sensor owns a line that the next one requests  *)
(* or uses, and a line the lamp does not request is the opener's own.      *)
THEOREM DevicesPins == DevicesSpec => []PinsFollowGate
<1>1. DevicesInv => PinsFollowGate  BY PinsFollow DEF DevicesInv
<1> QED  BY <1>1, DevicesInductive, PTL

(* weight_open and its siblings, with the other devices in use: one opener *)
(* at a time holds the sensor.                                             *)
THEOREM DevicesGate == DevicesSpec => AbstractSpec
<1>1. DevicesInit => Abstract!Init
  BY DEF DevicesInit, Init, Abstract!Init, Holder, Through
<1>2. /\ DevicesInv /\ DevicesInv'
      /\ [DevicesNext]_<<vars, sensorVars, clockVars, lampVars>>
      => [Abstract!Next]_Holder
  <2>1. [DevicesNext]_<<vars, sensorVars, clockVars, lampVars>> =>
          [Next]_vars \/ UNCHANGED pc
    BY DEF DevicesNext, GateMoves, LampMoves, SensorMoves, ClockMoves
  <2>2. UNCHANGED pc => UNCHANGED Holder  BY DEF Holder
  <2> QED  BY <2>1, <2>2, StepRefines DEF DevicesInv
<1> QED  BY <1>1, <1>2, DevicesInductive, PTL DEF DevicesSpec, AbstractSpec, Abstract!Spec

(* The open functions, temphumi_read, ds1302_read and ds1302_write, and    *)
(* RGB_lumin_write keep the types of their state, for any openers,         *)
(* threads, programs, times and brightnesses.                              *)
THEOREM DevicesTypeCorrect == DevicesSpec => []TypesOK
<1>1. DevicesInv => TypesOK
  BY GateTypes, SensorMeets, ClockMeets, LampMeets DEF DevicesInv, BoardInv, OwnerTypes, TypesOK
<1> QED  BY <1>1, DevicesInductive, PTL

(* temphumi_read: the bytes are those of the newest measurement, however   *)
(* many threads share the statics, unless one of them stored in between.   *)
THEOREM SensorReadsNewest == DevicesSpec => []ReadIsNewest
<1>1. DevicesInv => ReadIsNewest  BY SensorMeets DEF DevicesInv, ReadIsNewest
<1> QED  BY <1>1, DevicesInductive, PTL

(* ds1302_read: an unspoiled read is a second and a minute the clock       *)
(* showed one after the other, whatever is set and however it carries.     *)
THEOREM ClockReadsShown == DevicesSpec => []ReadIsShown
<1>1. DevicesInv => ReadIsShown  BY ClockMeets DEF DevicesInv, ReadIsShown
<1> QED  BY <1>1, DevicesInductive, PTL

(* RGB_lumin_write: a write that finds the lines driven and that nobody    *)
(* disturbs ends at its value, clipped, from wherever the wiper was and    *)
(* however INC stood; and only where a weight sensor uses lines of the     *)
(* lamp does a write find a line that is not driven.                       *)
THEOREM LampWriteSetsWiper == DevicesSpec => []WriteSetsWiper
<1>1. ASSUME DevicesInv, NEW u \in Users, upc[u] \in Lamp!Writing, ~ready[u]
      PROVE  ~Apart
  BY <1>1 DEF DevicesInv, BoardInv, LinesDriven
<1>2. DevicesInv => WriteSetsWiper
  BY <1>1, LampMeets DEF DevicesInv, WriteSetsWiper, Apart
<1> QED  BY <1>2, DevicesInductive, PTL
===============================================================================
