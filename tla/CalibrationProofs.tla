-------------------------- MODULE CalibrationProofs --------------------------
(***************************************************************************)
(* Proofs about Calibration, for any number of sensors, weighers and       *)
(* calibrations.                                                           *)
(***************************************************************************)
EXTENDS Calibration, TLAPS

(* The file is of calibration g, line for line.                            *)
Of(g) == \A i \in 1 .. Len(file.lines) : file.lines[i] = [gen |-> g, line |-> i]

(* Where the calibrator is in its work, and how much of the file is there. *)
(* A file it has emptied holds its own lines and no others.                *)
CalibratorAt ==
  LET at == pc[Calibrator]
      n == k[Calibrator]
  IN  /\ at \notin {"read", "weigh"}
      /\ at = "open" => n \in Sensors
      /\ at \in {"off", "measure", "creat", "open file", "open old"} => n = 1
      /\ at \in {"open", "measure", "creat"} => gen < MaxGens
      /\ at \in {"creat", "open file", "open old", "value", "newline"} =>
           has[Calibrator] # {}
      /\ at \in {"open file", "value", "newline"} => gen > 0 /\ (kept \/ Of(gen))
      /\ at = "open file" => ~kept /\ file.lines = <<>>
      /\ at = "open old" => gen > 0
      /\ at = "value" => kept \/ Len(file.lines) = n - 1
      /\ at = "newline" => n \in Sensors /\ (kept \/ Len(file.lines) = n)

(* A weigher that reads undisturbed has copied the lines it is past, from  *)
(* a file of one calibration.                                              *)
WeigherAt ==
  \A w \in Weighers :
    /\ pc[w] \in {"off", "read", "open", "weigh"}
    /\ pc[w] = "off" => k[w] = 1 /\ ~quiet[w]
    /\ pc[w] = "open" => k[w] \in Sensors
    /\ quiet[w] => Whole(file) /\ \E g \in 0 .. gen : Of(g)
    /\ quiet[w] /\ pc[w] = "read" =>
         \A l \in Lines : l < k[w] => got[w][l] = file.lines[l]

(* No sensor is open twice.                                                *)
Exclusive ==
  \A p, q \in Procs : p # q => has[p] \cap has[q] = {}

IInv == TypeOK /\ CalibratorAt /\ WeigherAt /\ Exclusive /\ OnePrefix /\ QuietReadIsWhole

LEMMA InitInductive == Init => IInv
<1> SUFFICES ASSUME Init PROVE IInv
  OBVIOUS
<1> USE ConstantsOK DEF Init, Procs
<1>1. TypeOK
  <2>1. Len(file.lines) = 0 /\ file \in [lines : Seq(Numbers), ended : BOOLEAN, exists : BOOLEAN]
    BY DEF Absent
  <2>2. pc \in [Procs -> Places] /\ k \in [Procs -> Lines]
    BY DEF Places, Lines
  <2>3. got \in [Weighers -> [Lines -> Numbers \cup {Missing, Garbage}]]
    BY DEF Nothing
  <2>4. gen \in 0 .. MaxGens /\ 0 <= N + 1
    OBVIOUS
  <2> QED  BY <2>1, <2>2, <2>3, <2>4 DEF TypeOK
<1>2. CalibratorAt  BY DEF CalibratorAt
<1>3. WeigherAt /\ Exclusive /\ QuietReadIsWhole
  BY DEF WeigherAt, Exclusive, QuietReadIsWhole
<1>4. OnePrefix
  <2>1. 0 \in 0 .. gen /\ \A i : i \notin 1 .. Len(file.lines)
    BY DEF Absent
  <2> QED  BY <2>1 DEF OnePrefix
<1> QED  BY <1>1, <1>2, <1>3, <1>4 DEF IInv

-----------------------------------------------------------------------------
(* The steps both programs share.                                          *)

LEMMA OpenStep ==
  ASSUME IInv, NEW p \in Procs, NEW to,
         \/ p = Calibrator /\ to = "measure"
         \/ p \in Weighers /\ to = "weigh",
         OpenSensor(p, to)
  PROVE  IInv'
<1> USE ConstantsOK DEF IInv, OpenSensor, Counts, Procs
<1>1. k[p] \in Sensors
  BY DEF CalibratorAt, WeigherAt
<1>2. TypeOK'
  <2>1. has' \in [Procs -> SUBSET Sensors]
    BY <1>1 DEF TypeOK
  <2>2. pc' \in [Procs -> Places]
    BY DEF TypeOK, Places
  <2>3. k' \in [Procs -> Lines]
    BY <1>1 DEF TypeOK, Lines, Sensors
  <2>4. UNCHANGED <<file, gen, got, kept, quiet>>
    OBVIOUS
  <2> HIDE DEF OpenSensor
  <2> QED  BY <2>1, <2>2, <2>3, <2>4 DEF TypeOK
<1>3. CalibratorAt'
  <2>1. CASE p = Calibrator
    <3>1. /\ pc[p] = "open" /\ pc'[p] \in {"open", "measure"}
          /\ pc'[p] = "open" => k'[p] \in Sensors
          /\ pc'[p] = "measure" => k'[p] = 1
          /\ UNCHANGED gen
      BY <1>1, <2>1 DEF TypeOK, Lines, Sensors
    <3> HIDE DEF OpenSensor
    <3> QED  BY <2>1, <3>1 DEF CalibratorAt
  <2>2. CASE p # Calibrator
    BY <2>2 DEF TypeOK, CalibratorAt, Of
  <2> QED  BY <2>1, <2>2
<1>4. WeigherAt'
  <2>1. \A w \in Weighers :
          \/ pc'[w] = pc[w] /\ k'[w] = k[w]
          \/ pc'[w] = "weigh"
          \/ pc'[w] = "open" /\ k'[w] \in Sensors
    BY <1>1 DEF TypeOK, Lines, Sensors
  <2>2. UNCHANGED <<file, gen, got, quiet>>
    OBVIOUS
  <2> HIDE DEF OpenSensor
  <2>3. ASSUME NEW w \in Weighers
        PROVE  /\ pc'[w] \in {"off", "read", "open", "weigh"}
               /\ pc'[w] = "off" => k'[w] = 1 /\ ~quiet'[w]
               /\ pc'[w] = "open" => k'[w] \in Sensors
               /\ quiet'[w] /\ pc'[w] = "read" =>
                    \A l \in Lines : l < k'[w] => got'[w][l] = file'.lines[l]
    BY <2>1, <2>2, <2>3 DEF WeigherAt
  <2>4. ASSUME NEW w \in Weighers, quiet'[w]
        PROVE  (Whole(file) /\ \E g \in 0 .. gen : Of(g))'
    BY <2>2, <2>4 DEF WeigherAt, Whole, Of
  <2> QED  BY <2>3, <2>4 DEF WeigherAt
<1>5. Exclusive'
  BY DEF TypeOK, Exclusive, Free
<1>6. OnePrefix'
  BY DEF OnePrefix
<1>7. QuietReadIsWhole'
  BY DEF TypeOK, QuietReadIsWhole
<1> QED  BY <1>2, <1>3, <1>4, <1>5, <1>6, <1>7

LEMMA EndStep ==
  ASSUME IInv, NEW p \in Procs, Ends(p)
  PROVE  IInv'
<1> USE ConstantsOK DEF IInv, Ends, Procs
<1>1. TypeOK'
  <2>1. has' \in [Procs -> SUBSET Sensors] /\ pc' \in [Procs -> Places]
    BY DEF TypeOK, Places
  <2>2. k' \in [Procs -> Lines]
    BY DEF TypeOK, Lines
  <2>3. got' \in [Weighers -> [Lines -> Numbers \cup {Missing, Garbage}]]
    BY DEF TypeOK, Nothing
  <2>4. quiet' \in [Weighers -> BOOLEAN] /\ UNCHANGED <<file, gen, kept>>
    OBVIOUS
  <2> HIDE DEF Ends
  <2> QED  BY <2>1, <2>2, <2>3, <2>4 DEF TypeOK
<1>2. CalibratorAt'
  BY DEF TypeOK, CalibratorAt, Lines, Sensors, Of
<1>3. WeigherAt'
  <2>1. ASSUME NEW w \in Weighers, w = p
        PROVE  pc'[w] = "off" /\ k'[w] = 1 /\ ~quiet'[w]
    BY <2>1 DEF TypeOK
  <2>2. ASSUME NEW w \in Weighers, w # p
        PROVE  /\ pc'[w] = pc[w] /\ k'[w] = k[w] /\ got'[w] = got[w]
               /\ (quiet'[w] <=> quiet[w])
    BY <2>2 DEF TypeOK
  <2>3. UNCHANGED <<file, gen>>
    OBVIOUS
  <2> HIDE DEF Ends
  <2> QED  BY <2>1, <2>2, <2>3 DEF WeigherAt, Whole, Of
<1>4. Exclusive'
  BY DEF TypeOK, Exclusive
<1>5. OnePrefix'
  BY DEF OnePrefix
<1>6. QuietReadIsWhole'
  BY DEF TypeOK, QuietReadIsWhole
<1> QED  BY <1>1, <1>2, <1>3, <1>4, <1>5, <1>6

-----------------------------------------------------------------------------
(* The calibrator.                                                         *)

LEMMA StartStep ==
  ASSUME IInv, Start
  PROVE  IInv'
<1> USE ConstantsOK DEF IInv, Start, Goes, Procs
<1>1. TypeOK'  BY DEF TypeOK, Places
<1>2. CalibratorAt'  BY DEF TypeOK, CalibratorAt, Sensors
<1>3. WeigherAt'  BY DEF TypeOK, WeigherAt, Whole, Of
<1>4. Exclusive' /\ OnePrefix'  BY DEF Exclusive, OnePrefix
<1>5. QuietReadIsWhole'  BY DEF TypeOK, QuietReadIsWhole
<1> QED  BY <1>1, <1>2, <1>3, <1>4, <1>5

LEMMA MeasureStep ==
  ASSUME IInv, Measure
  PROVE  IInv'
<1> USE ConstantsOK DEF IInv, Measure, Goes, Procs
<1>1. TypeOK'  BY DEF TypeOK, Places
<1>2. CalibratorAt'  BY DEF TypeOK, CalibratorAt
<1>3. WeigherAt'  BY DEF TypeOK, WeigherAt, Whole, Of
<1>4. Exclusive' /\ OnePrefix'  BY DEF Exclusive, OnePrefix
<1>5. QuietReadIsWhole'  BY DEF TypeOK, QuietReadIsWhole
<1> QED  BY <1>1, <1>2, <1>3, <1>4, <1>5

LEMMA CreatStep ==
  ASSUME IInv, Creat
  PROVE  IInv'
<1> USE ConstantsOK DEF IInv, Creat, Goes, Procs
<1>1. gen < MaxGens  BY DEF CalibratorAt
<1>2. file' = [lines |-> <<>>, ended |-> FALSE, exists |-> TRUE] /\ gen' = gen + 1
  OBVIOUS
<1>a. file'.lines = <<>> /\ Len(file'.lines) = 0
  <2> HIDE DEF Creat
  <2> QED  BY <1>2
<1>3. TypeOK'
  <2>1. file' \in [lines : Seq(Numbers), ended : BOOLEAN, exists : BOOLEAN]
    <3> HIDE DEF Creat
    <3> QED  BY <1>2
  <2>2. pc' \in [Procs -> Places]
    BY DEF TypeOK, Places
  <2>3. gen' \in 0 .. MaxGens
    <3>1. gen \in 0 .. MaxGens
      BY DEF TypeOK
    <3> HIDE DEF Creat
    <3> QED  BY <1>1, <1>2, <3>1
  <2>4. Len(file'.lines) <= N + 1
    <3> HIDE DEF Creat
    <3> QED  BY <1>a
  <2>5. kept' \in BOOLEAN /\ quiet' \in [Weighers -> BOOLEAN] /\ UNCHANGED <<has, k, got>>
    OBVIOUS
  <2> HIDE DEF Creat
  <2> QED  BY <2>1, <2>2, <2>3, <2>4, <2>5 DEF TypeOK
<1>4. \A i : i \notin 1 .. Len(file'.lines)
  <2> HIDE DEF Creat
  <2> QED  BY <1>a
<1>5. CalibratorAt'
  <2>1. pc'[Calibrator] = "open file" /\ UNCHANGED <<has, k>>
    BY DEF TypeOK
  <2>3. gen' > 0
    <3>1. gen \in 0 .. MaxGens
      BY DEF TypeOK
    <3> HIDE DEF Creat
    <3> QED  BY <1>2, <3>1
  <2>2. k[Calibrator] = 1 /\ has[Calibrator] # {} /\ ~kept'
    BY DEF CalibratorAt
  <2> HIDE DEF Creat
  <2> QED  BY <1>a, <1>4, <2>1, <2>2, <2>3 DEF CalibratorAt, Of
<1>6. WeigherAt'  BY DEF TypeOK, WeigherAt
<1>7. OnePrefix'
  <2>1. gen' \in 0 .. gen'
    <3>1. gen \in 0 .. MaxGens
      BY DEF TypeOK
    <3> HIDE DEF Creat
    <3> QED  BY <1>2, <3>1
  <2> QED  BY <1>4, <2>1 DEF OnePrefix
<1>8. Exclusive'  BY DEF Exclusive
<1>9. QuietReadIsWhole'  BY DEF QuietReadIsWhole
<1> QED  BY <1>3, <1>5, <1>6, <1>7, <1>8, <1>9

(* The steps between creat and the first number leave the file alone.      *)
LEMMA OpenFileStep ==
  ASSUME IInv, CreatFails \/ OpenFile \/ OpenFileFails
  PROVE  IInv'
<1> USE ConstantsOK DEF IInv, CreatFails, OpenFile, OpenFileFails, Goes, Procs
<1>1. gen \in Nat /\ gen' \in gen .. gen + 1 /\ gen' \in 0 .. MaxGens
      /\ UNCHANGED <<has, k, file, got, quiet>>
  <2>1. gen \in 0 .. MaxGens /\ (CreatFails => gen < MaxGens)
    BY DEF TypeOK, CalibratorAt
  <2>2. gen' = gen \/ (gen' = gen + 1 /\ gen < MaxGens)
    BY <2>1
  <2>3. UNCHANGED <<has, k, file, got, quiet>>
    OBVIOUS
  <2> HIDE DEF CreatFails, OpenFile, OpenFileFails
  <2> QED  BY <2>1, <2>2, <2>3
<1>2. \A g : Of(g)' <=> Of(g)  BY <1>1 DEF Of
<1>3. 0 .. gen \subseteq 0 .. gen'
  <2> HIDE DEF CreatFails, OpenFile, OpenFileFails
  <2> QED  BY <1>1
<1>4. TypeOK'
  <2>1. pc' \in [Procs -> Places] /\ kept' \in BOOLEAN
    BY DEF TypeOK, Places
  <2> HIDE DEF CreatFails, OpenFile, OpenFileFails
  <2> QED  BY <1>1, <2>1 DEF TypeOK
<1>5. CalibratorAt'
  <2>1. CASE CreatFails
    <3>1. pc'[Calibrator] = "open old" /\ gen' = gen + 1 /\ UNCHANGED <<has, k>>
      BY <2>1 DEF TypeOK
    <3>2. k[Calibrator] = 1 /\ has[Calibrator] # {}
      BY <2>1 DEF CalibratorAt
    <3> HIDE DEF CreatFails, OpenFile, OpenFileFails
    <3> HIDE DEF CreatFails, OpenFile, OpenFileFails
    <3>3. gen' > 0
      <4>1. gen \in Nat /\ gen' = gen + 1
        BY <1>1, <3>1
      <4>2. \A g \in Nat : g + 1 > 0
        OBVIOUS
      <4> QED  BY ONLY <4>1, <4>2
    <3> QED  BY <3>1, <3>2, <3>3 DEF CalibratorAt
  <2>2. CASE OpenFile
    <3>1. pc'[Calibrator] = "value" /\ UNCHANGED <<has, k, gen, file>>
      BY <2>2 DEF TypeOK
    <3>2. k[Calibrator] = 1 /\ has[Calibrator] # {} /\ gen > 0
      BY <2>2 DEF CalibratorAt
    <3>3. kept' \/ (Of(gen)' /\ Len(file.lines) = 1 - 1)
      <4>1. CASE pc[Calibrator] = "open file"
        <5>1. Of(gen) /\ file.lines = <<>>
          BY <4>1 DEF CalibratorAt
        <5>2. Of(gen)'
          BY <2>2, <5>1 DEF Of
        <5>3. Len(file.lines) = 1 - 1
          BY ONLY <5>1
        <5> QED  BY ONLY <5>2, <5>3
      <4>2. CASE pc[Calibrator] # "open file"
        BY <2>2, <4>2
      <4> QED  BY <4>1, <4>2
    <3> HIDE DEF CreatFails, OpenFile, OpenFileFails
    <3> QED  BY <3>1, <3>2, <3>3 DEF CalibratorAt
  <2>3. CASE OpenFileFails
    BY <2>3 DEF TypeOK, CalibratorAt
  <2> QED  BY <2>1, <2>2, <2>3
<1>6. \A w \in Weighers : pc'[w] = pc[w]  BY DEF TypeOK
<1>7. WeigherAt'
  BY <1>1, <1>2, <1>3, <1>6 DEF WeigherAt, Whole
<1>8. OnePrefix'
  <2>1. kept => kept'  BY DEF TypeOK
  <2> QED  BY <1>1, <1>3, <2>1 DEF OnePrefix
<1>9. Exclusive'  BY <1>1 DEF Exclusive
<1>10. QuietReadIsWhole'  BY <1>1, <1>6 DEF QuietReadIsWhole
<1> QED  BY <1>4, <1>5, <1>7, <1>8, <1>9, <1>10

(* Where the number lands, whatever is in the file.                        *)
LEMMA PutLemma ==
  ASSUME NEW q \in Seq(Numbers), NEW n \in Nat \ {0}, NEW v \in Numbers
  PROVE  /\ Put(q, n, v) \in Seq(Numbers)
         /\ Len(Put(q, n, v)) = IF n <= Len(q) THEN Len(q) ELSE Len(q) + 1
         /\ Len(q) = n - 1 => /\ Put(q, n, v)[n] = v
                              /\ \A i \in 1 .. n - 1 : Put(q, n, v)[i] = q[i]
<1>1. CASE n <= Len(q)
  BY <1>1 DEF Put
<1>2. CASE ~(n <= Len(q))
  BY <1>2 DEF Put
<1> QED  BY <1>1, <1>2

(* In a file that creat emptied the number lands on the next line: nothing *)
(* it overwrites is left.                                                  *)
LEMMA WriteValueStep ==
  ASSUME IInv, WriteValue
  PROVE  IInv'
<1> USE ConstantsOK DEF IInv, WriteValue, Goes, Procs
<1> DEFINE n == k[Calibrator]
           v == [gen |-> gen, line |-> n]
           q == file'.lines
<1>1. n \in Lines /\ gen \in 1 .. MaxGens
  BY DEF TypeOK, CalibratorAt
<1>2. q = Put(file.lines, n, v)
  BY DEF TypeOK
<1>3. v \in Numbers
  BY <1>1 DEF Numbers
<1>4. /\ q \in Seq(Numbers)
      /\ Len(q) = IF n <= Len(file.lines) THEN Len(file.lines) ELSE Len(file.lines) + 1
      /\ Len(file.lines) = n - 1 =>
           q[n] = v /\ \A i \in 1 .. n - 1 : q[i] = file.lines[i]
  <2>1. file.lines \in Seq(Numbers)
    BY DEF TypeOK
  <2>2. n \in Nat \ {0}
    BY <1>1 DEF Lines
  <2> HIDE DEF v, n, q, WriteValue
  <2>3. /\ Put(file.lines, n, v) \in Seq(Numbers)
        /\ Len(Put(file.lines, n, v))
             = IF n <= Len(file.lines) THEN Len(file.lines) ELSE Len(file.lines) + 1
        /\ Len(file.lines) = n - 1 =>
             /\ Put(file.lines, n, v)[n] = v
             /\ \A i \in 1 .. n - 1 : Put(file.lines, n, v)[i] = file.lines[i]
    BY <1>3, <2>1, <2>2, PutLemma
  <2> QED  BY ONLY <1>2, <2>3
<1>5. Len(file.lines) \in Nat /\ Len(file.lines) <= N + 1
  BY DEF TypeOK
<1>6. TypeOK'
  <2>1. file' \in [lines : Seq(Numbers), ended : BOOLEAN, exists : BOOLEAN]
    <3>1. file' = [lines |-> q, ended |-> file.ended /\ n < Len(file.lines),
                   exists |-> file.exists]
      BY <1>2 DEF TypeOK
    <3>2. file.ended \in BOOLEAN /\ file.exists \in BOOLEAN
      BY DEF TypeOK
    <3>3. (file.ended /\ n < Len(file.lines)) \in BOOLEAN
      OBVIOUS
    <3>4. q \in Seq(Numbers)
      BY <1>4
    <3> HIDE DEF q, n, WriteValue
    <3> QED  BY <3>1, <3>2, <3>3, <3>4
  <2>2. pc' \in [Procs -> Places]
    BY DEF TypeOK, Places
  <2>3. Len(q) <= N + 1
    BY <1>1, <1>4, <1>5 DEF Lines
  <2>4. quiet' \in [Weighers -> BOOLEAN]
    OBVIOUS
  <2>5. UNCHANGED <<has, k, gen, got, kept>>
    OBVIOUS
  <2> HIDE DEF WriteValue
  <2> QED  BY <2>1, <2>2, <2>3, <2>4, <2>5 DEF TypeOK
<1>7. kept \/ (Len(q) = n /\ Of(gen)')
  <2> SUFFICES ASSUME ~kept PROVE Len(q) = n /\ Of(gen)'
    OBVIOUS
  <2>1. Len(file.lines) = n - 1 /\ Of(gen)
    BY DEF CalibratorAt
  <2>2. n \in Int
    BY <1>1 DEF Lines
  <2>3. Len(q) = n
    <3> HIDE DEF q, n
    <3> QED  BY <1>4, <2>1, <2>2
  <2>4. gen' = gen
    OBVIOUS
  <2>5. ASSUME NEW i \in 1 .. n PROVE q[i] = [gen |-> gen, line |-> i]
    <3>1. CASE i = n
      BY <1>4, <2>1, <3>1
    <3>2. CASE i # n
      <4>1. i \in 1 .. n - 1
        <5> HIDE DEF n
        <5> QED  BY <2>2, <2>5, <3>2
      <4> QED  BY <1>4, <2>1, <4>1 DEF Of
    <3> QED  BY <3>1, <3>2
  <2> HIDE DEF n
  <2> QED  BY <2>3, <2>4, <2>5 DEF Of
<1>8. CalibratorAt'
  <2>1. pc'[Calibrator] = IF n = N + 1 THEN "close" ELSE "newline"
    BY DEF TypeOK
  <2>2. UNCHANGED <<has, k, gen, kept>> /\ has[Calibrator] # {} /\ gen > 0
    BY DEF CalibratorAt
  <2>3. n # N + 1 => n \in Sensors
    BY <1>1 DEF Lines, Sensors
  <2> HIDE DEF WriteValue
  <2> QED  BY <1>7, <2>1, <2>2, <2>3 DEF CalibratorAt
<1>9. WeigherAt'
  BY DEF TypeOK, WeigherAt
<1>10. OnePrefix'
  <2>1. gen' \in 0 .. gen' /\ gen' = gen
    BY <1>1
  <2> QED  BY <1>7, <2>1 DEF OnePrefix, Of
<1>11. Exclusive' /\ QuietReadIsWhole'
  BY DEF Exclusive, QuietReadIsWhole
<1> QED  BY <1>6, <1>8, <1>9, <1>10, <1>11

LEMMA WriteNewlineStep ==
  ASSUME IInv, WriteNewline
  PROVE  IInv'
<1> USE ConstantsOK DEF IInv, WriteNewline, Goes, Procs
<1>1. file'.lines = file.lines
  BY DEF TypeOK
<1>2. TypeOK'
  <2>1. file' \in [lines : Seq(Numbers), ended : BOOLEAN, exists : BOOLEAN]
    BY DEF TypeOK
  <2>2. k' \in [Procs -> Lines]
    BY DEF TypeOK, CalibratorAt, Lines, Sensors
  <2>3. pc' \in [Procs -> Places]
    BY DEF TypeOK, Places
  <2> QED  BY <1>1, <2>1, <2>2, <2>3 DEF TypeOK
<1>3. CalibratorAt'
  BY <1>1 DEF TypeOK, CalibratorAt, Of, Sensors
<1>4. WeigherAt'  BY DEF TypeOK, WeigherAt
<1>5. OnePrefix'  BY <1>1 DEF OnePrefix
<1>6. Exclusive' /\ QuietReadIsWhole'
  BY DEF Exclusive, QuietReadIsWhole
<1> QED  BY <1>2, <1>3, <1>4, <1>5, <1>6

-----------------------------------------------------------------------------
(* The weighers.                                                           *)

LEMMA WeigherStarts ==
  ASSUME IInv, NEW w \in Weighers, StartTest(w) \/ StartWeigh(w)
  PROVE  IInv'
<1> USE ConstantsOK DEF IInv, StartTest, StartWeigh, Goes, Procs
<1>1. TypeOK'
  <2>1. pc' \in [Procs -> Places]
    BY DEF TypeOK, Places
  <2>2. quiet' \in [Weighers -> BOOLEAN]
    BY DEF TypeOK, Whole
  <2>3. UNCHANGED <<has, k, file, gen, got, kept>>
    OBVIOUS
  <2> HIDE DEF StartTest, StartWeigh
  <2> QED  BY <2>1, <2>2, <2>3 DEF TypeOK
<1>2. CalibratorAt'
  <2>1. pc'[Calibrator] = pc[Calibrator] /\ UNCHANGED <<has, k, file, gen, kept>>
    BY DEF TypeOK
  <2> HIDE DEF StartTest, StartWeigh
  <2> QED  BY <2>1 DEF CalibratorAt, Of
<1>3. WeigherAt'
  <2>1. k[w] = 1 /\ \A l \in Lines : ~(l < k[w])
    BY DEF WeigherAt, Lines
  <2>2. 1 \in Sensors
    BY DEF Sensors
  <2>3. \A u \in Weighers :
          u # w => pc'[u] = pc[u] /\ quiet'[u] = quiet[u]
    BY DEF TypeOK
  <2>4. CASE StartTest(w)
    BY <2>1, <2>2, <2>4 DEF TypeOK, WeigherAt, Whole, Of
  <2>5. CASE StartWeigh(w)
    <3>1. pc'[w] = "read" /\ (quiet'[w] <=> Whole(file) /\ ~kept)
      BY <2>5 DEF TypeOK
    <3>2. ~kept => \E g \in 0 .. gen : Of(g)
      BY DEF OnePrefix, Of
    <3> QED  BY <2>1, <2>3, <2>5, <3>1, <3>2 DEF WeigherAt, Whole, Of
  <2> QED  BY <2>4, <2>5
<1>4. Exclusive' /\ OnePrefix'  BY DEF Exclusive, OnePrefix
<1>5. QuietReadIsWhole'
  BY DEF TypeOK, QuietReadIsWhole, WeigherAt
<1> QED  BY <1>1, <1>2, <1>3, <1>4, <1>5

(* An undisturbed weigher copies line k of a whole file, and the last line *)
(* completes a calibration.                                                *)
LEMMA ReadLineStep ==
  ASSUME IInv, NEW w \in Weighers, ReadLine(w)
  PROVE  IInv'
<1> USE ConstantsOK DEF IInv, ReadLine, Counts, Procs
<1> PICK v \in Readline(k[w]) : got' = [got EXCEPT ![w][k[w]] = v]
  OBVIOUS
<1>1. k[w] \in Lines
  BY DEF TypeOK
<1>2. v \in Numbers \cup {Missing, Garbage}
  BY <1>1 DEF Readline, TypeOK, Lines
<1>3. quiet[w] => v = file.lines[k[w]]
  BY <1>1 DEF Readline, WeigherAt, Whole, Lines
<1>4. \A l \in Lines : got'[w][l] = IF l = k[w] THEN v ELSE got[w][l]
  BY <1>1 DEF TypeOK
<1>5. TypeOK'
  <2>1. pc' \in [Procs -> Places]
    BY DEF TypeOK, Places
  <2>2. k' \in [Procs -> Lines]
    BY <1>1 DEF TypeOK, Lines
  <2>3. got' \in [Weighers -> [Lines -> Numbers \cup {Missing, Garbage}]]
    BY <1>1, <1>2 DEF TypeOK
  <2>4. UNCHANGED <<has, file, gen, kept, quiet>>
    OBVIOUS
  <2> HIDE DEF ReadLine
  <2> QED  BY <2>1, <2>2, <2>3, <2>4 DEF TypeOK
<1>6. CalibratorAt'
  BY DEF TypeOK, CalibratorAt, Of
<1>7. WeigherAt'
  <2> SUFFICES ASSUME NEW u \in Weighers
               PROVE  /\ pc'[u] \in {"off", "read", "open", "weigh"}
                      /\ pc'[u] = "off" => k'[u] = 1 /\ ~quiet'[u]
                      /\ pc'[u] = "open" => k'[u] \in Sensors
                      /\ quiet'[u] => Whole(file') /\ \E g \in 0 .. gen' : Of(g)'
                      /\ quiet'[u] /\ pc'[u] = "read" =>
                           \A l \in Lines : l < k'[u] => got'[u][l] = file'.lines[l]
    BY DEF WeigherAt
  <2>1. CASE u = w
    <3>1. /\ pc[w] = "read" /\ quiet'[w] = quiet[w] /\ file' = file
          /\ pc'[w] = IF k[w] < N + 1 THEN "read" ELSE "open"
          /\ k'[w] = IF k[w] < N + 1 THEN k[w] + 1 ELSE 1
      BY DEF TypeOK
    <3>2. k'[w] = 1 => k'[w] \in Sensors
      BY DEF Sensors
    <3>3. quiet[w] => /\ Whole(file') /\ \E g \in 0 .. gen' : Of(g)'
                      /\ \A l \in Lines : l < k[w] => got[w][l] = file.lines[l]
      BY <3>1 DEF WeigherAt, Of
    <3>4. ASSUME quiet[w], NEW l \in Lines, l < k'[w], k[w] < N + 1
          PROVE  got'[w][l] = file'.lines[l]
      <4>1. l = k[w] \/ l < k[w]
        BY <1>1, <3>1, <3>4 DEF Lines
      <4> QED  BY <1>3, <1>4, <3>1, <3>3, <3>4, <4>1
    <3> QED  BY <2>1, <3>1, <3>2, <3>3, <3>4
  <2>2. CASE u # w
    BY <2>2 DEF TypeOK, WeigherAt, Whole, Of
  <2> QED  BY <2>1, <2>2
<1>8. Exclusive' /\ OnePrefix'
  BY DEF Exclusive, OnePrefix
<1>9. QuietReadIsWhole'
  <2> SUFFICES ASSUME NEW u \in Weighers, quiet'[u], pc'[u] \in {"open", "weigh"}
               PROVE  \E g \in 1 .. MaxGens :
                        \A l \in Lines : got'[u][l] = [gen |-> g, line |-> l]
    BY DEF QuietReadIsWhole
  <2>1. CASE u = w
    <3>1. k[w] = N + 1 /\ Whole(file) /\ \E g \in 0 .. gen : Of(g)
      BY <1>1, <2>1 DEF TypeOK, WeigherAt, Lines
    <3>2. \A l \in Lines : got'[w][l] = file.lines[l]
      BY <1>3, <1>4, <2>1, <3>1 DEF WeigherAt, Lines
    <3>3. PICK g \in 0 .. gen : \A l \in Lines : file.lines[l] = [gen |-> g, line |-> l]
      BY <3>1 DEF Of, Whole, Lines
    <3>4. g \in 1 .. MaxGens
      <4>1. 1 \in Lines  BY DEF Lines
      <4>2. file.lines[1] \in Numbers  BY <3>1, <4>1 DEF TypeOK, Whole, Lines
      <4>3. file.lines[1] = [gen |-> g, line |-> 1]  BY <3>3, <4>1
      <4>4. [gen |-> g, line |-> 1] \in Numbers  BY <4>2, <4>3
      <4> QED  BY <4>4 DEF Numbers
    <3> QED  BY <2>1, <3>2, <3>3, <3>4
  <2>2. CASE u # w
    BY <2>2 DEF TypeOK, QuietReadIsWhole
  <2> QED  BY <2>1, <2>2
<1> QED  BY <1>5, <1>6, <1>7, <1>8, <1>9

-----------------------------------------------------------------------------
LEMMA StepInductive == IInv /\ [Next]_vars => IInv'
<1> SUFFICES ASSUME IInv, [Next]_vars PROVE IInv'
  OBVIOUS
<1>1. CASE Calibrates
  BY <1>1, StartStep, OpenStep, MeasureStep, CreatStep, OpenFileStep, WriteValueStep,
     WriteNewlineStep
  DEF Calibrates, Procs
<1>2. CASE \E w \in Weighers : Weighs(w)
  BY <1>2, WeigherStarts, ReadLineStep, OpenStep DEF Weighs, Procs
<1>3. CASE \E p \in Procs : Ends(p)
  BY <1>3, EndStep
<1>4. CASE UNCHANGED vars
  <2> USE <1>4 DEF vars
  <2>1. TypeOK' /\ CalibratorAt' /\ Exclusive'
    BY DEF IInv, TypeOK, CalibratorAt, Exclusive, Of
  <2>2. WeigherAt'
    BY DEF IInv, WeigherAt, Whole, Of
  <2>3. OnePrefix' /\ QuietReadIsWhole'
    BY DEF IInv, OnePrefix, QuietReadIsWhole
  <2> QED  BY <2>1, <2>2, <2>3 DEF IInv
<1> QED  BY <1>1, <1>2, <1>3, <1>4 DEF Next

LEMMA Inductive == Spec => []IInv
BY InitInductive, StepInductive, PTL DEF Spec

(* The programs keep the types of their state.                             *)
THEOREM TypeCorrect == Spec => []TypeOK
<1>1. IInv => TypeOK  BY DEF IInv
<1> QED  BY <1>1, Inductive, PTL

(* creat and the writes behind it: wherever a calibrator is killed, the    *)
(* file is the beginning of what one calibration writes.                   *)
THEOREM FileIsOnePrefix == Spec => []OnePrefix
<1>1. IInv => OnePrefix  BY DEF IInv
<1> QED  BY <1>1, Inductive, PTL

(* read_original_file: undisturbed, it returns one whole calibration.      *)
THEOREM QuietReads == Spec => []QuietReadIsWhole
<1>1. IInv => QuietReadIsWhole  BY DEF IInv
<1> QED  BY <1>1, Inductive, PTL

(* The gates of the sensors keep the calibrator away from the file while a *)
(* weigher holds them all, though neither program locks the file.          *)
THEOREM GatesGuardFile == Spec => FileRestsWhileWeighing
<1> DEFINE A == (\E w \in Weighers : has[w] = Sensors) => UNCHANGED file
<1>1. ASSUME IInv, Next, NEW w \in Weighers, has[w] = Sensors
      PROVE  UNCHANGED file
  <2>1. has[Calibrator] = {}
    <3>1. has[w] \cap has[Calibrator] = {}
      BY <1>1, ConstantsOK DEF IInv, Exclusive, Procs
    <3> QED  BY <1>1, <3>1 DEF IInv, TypeOK, Procs
  <2>2. ~Creat /\ ~WriteValue /\ ~WriteNewline
    BY <1>1, <2>1 DEF IInv, CalibratorAt, Creat, WriteValue, WriteNewline, Goes
  <2> QED
    BY <1>1, <2>2
    DEF Next, Calibrates, Weighs, Start, Measure, CreatFails, OpenFile,
        OpenFileFails, OpenSensor, StartTest, StartWeigh,
        ReadLine, Ends
<1>2. IInv /\ [Next]_vars => [A]_vars
  BY <1>1
<1> QED  BY <1>2, Inductive, PTL DEF Spec, FileRestsWhileWeighing

==============================================================================
