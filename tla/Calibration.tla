---------------------------- MODULE Calibration ------------------------------
(***************************************************************************)
(* The weight programs of the IMX6 board (1hm_biaoding_app): the           *)
(* calibrator measures the empty and the loaded scale and writes           *)
(* /weight_oefficient.txt, one line per sensor and one for the             *)
(* coefficient; a weigher reads the file once, line by line, and then      *)
(* opens the sensors.  Nothing orders the two programs but the gates of    *)
(* the sensors, and any of them may be killed at any step.                 *)
(*                                                                         *)
(* A gate is ExclusiveOpen, which OpenGate implements; an open may fail    *)
(* for other reasons as well, and no program looks at its result.  A saved *)
(* number is represented by the calibration and the line it was written    *)
(* for: what the coefficient is worth (float, six digits) is left out.     *)
(* creat and the open behind it may fail; a write to the open file         *)
(* succeeds (a full disk is not modelled), and one calibrator runs at a    *)
(* time.                                                                   *)
(***************************************************************************)
EXTENDS Integers, Sequences

CONSTANTS
  N,          \* sensors, opened in the order 1 .. N
  Weighers, Calibrator,
  MaxGens     \* bound: calibrations that get as far as the file

ASSUME ConstantsOK ==
  /\ N \in Nat \ {0}
  /\ Calibrator \notin Weighers
  /\ MaxGens \in Nat

Sensors == 1 .. N
Lines == 1 .. N + 1    \* the originals, then the coefficient
Procs == Weighers \cup {Calibrator}

Absent == [lines |-> <<>>, ended |-> FALSE, exists |-> FALSE]
Missing == [gen |-> 0, line |-> 0]   \* no number: atoi of an empty line is 0
Garbage == [gen |-> 0, line |-> -1]  \* readline returned no value
Nothing == [l \in Lines |-> Missing]
Numbers == [gen : 1 .. MaxGens, line : Lines]

VARIABLES
  has,      \* per process: the sensors it holds open
  pc, k,    \* per process: where it is, at which sensor or line
  file,     \* /weight_oefficient.txt: its lines, and whether a newline ends it
  gen,      \* calibrations that have got as far as the file
  got,      \* per weigher: the numbers it works with
  kept,     \* history: the file was written over without being emptied
  quiet     \* history: the file was whole and untouched while it was read

vars == <<has, pc, k, file, gen, got, kept, quiet>>

Init ==
  /\ has = [p \in Procs |-> {}]
  /\ pc = [p \in Procs |-> "off"] /\ k = [p \in Procs |-> 1]
  /\ file = Absent /\ gen = 0 /\ kept = FALSE
  /\ got = [w \in Weighers |-> Nothing]
  /\ quiet = [w \in Weighers |-> FALSE]

Whole(f) == Len(f.lines) = N + 1

Goes(p, from, to) == pc[p] = from /\ pc' = [pc EXCEPT ![p] = to]

\* Mutant: one sensor or line too many.
Counts_OneMore(p, at, last, to) ==
  /\ pc[p] = at
  /\ pc' = [pc EXCEPT ![p] = IF k[p] <= last THEN at ELSE to]
  /\ k' = [k EXCEPT ![p] = IF k[p] <= last THEN k[p] + 1 ELSE 1]

\* The next sensor or line in the same place, or on to the next place.
Counts(p, at, last, to) ==
  /\ pc[p] = at
  /\ pc' = [pc EXCEPT ![p] = IF k[p] < last THEN at ELSE to]
  /\ k' = [k EXCEPT ![p] = IF k[p] < last THEN k[p] + 1 ELSE 1]

Free(s) == \A p \in Procs : s \notin has[p]

\* Mutant: the sensor has no gate.
OpenSensor_NoGate(p, to) ==
  /\ Counts(p, "open", N, to)
  /\ has' = [has EXCEPT ![p] = @ \cup {k[p]}]
  /\ UNCHANGED <<file, gen, got, kept, quiet>>

\* An open that fails, for the gate or otherwise, is only reported on the
\* terminal.
OpenSensor(p, to) ==
  /\ Counts(p, "open", N, to)
  /\ \/ Free(k[p]) /\ has' = [has EXCEPT ![p] = @ \cup {k[p]}]
     \/ UNCHANGED has
  /\ UNCHANGED <<file, gen, got, kept, quiet>>

\* The end of a program, wherever it is: its files are closed.
Ends(p) ==
  /\ pc[p] # "off"
  /\ pc' = [pc EXCEPT ![p] = "off"]
  /\ k' = [k EXCEPT ![p] = 1]
  /\ has' = [has EXCEPT ![p] = {}]
  /\ got' = [w \in Weighers |-> IF w = p THEN Nothing ELSE got[w]]
  /\ quiet' = [w \in Weighers |-> w # p /\ quiet[w]]
  /\ UNCHANGED <<file, gen, kept>>

-----------------------------------------------------------------------------
(* get_original_oefficient.                                                *)

Start ==
  /\ gen < MaxGens
  /\ Goes(Calibrator, "off", "open")
  /\ UNCHANGED <<has, k, file, gen, got, kept, quiet>>

\* A sensor that is not open reads 0 loaded and empty, so the loop that
\* waits for the load ends only if a sensor is open.
Measure ==
  /\ has[Calibrator] # {}
  /\ Goes(Calibrator, "measure", "creat")
  /\ UNCHANGED <<has, k, file, gen, got, kept, quiet>>

\* Mutant: the old file is not truncated.
Creat_Kept ==
  /\ Goes(Calibrator, "creat", "open file")
  /\ gen' = gen + 1
  /\ file' = [file EXCEPT !.exists = TRUE]
  /\ kept' = FALSE
  /\ quiet' = [w \in Weighers |-> FALSE]
  /\ UNCHANGED <<has, k, got>>

Creat ==
  /\ Goes(Calibrator, "creat", "open file")
  /\ gen' = gen + 1
  /\ file' = [lines |-> <<>>, ended |-> FALSE, exists |-> TRUE]
  /\ kept' = FALSE
  /\ quiet' = [w \in Weighers |-> FALSE]
  /\ UNCHANGED <<has, k, got>>

\* A creat that fails is only reported: the file stays as it is.
CreatFails ==
  /\ Goes(Calibrator, "creat", "open old")
  /\ gen' = gen + 1
  /\ UNCHANGED <<has, k, file, got, kept, quiet>>

\* The file is opened once more.  After a creat that failed this finds the old
\* one, if there is one, and the numbers go over it.
OpenFile ==
  /\ \/ Goes(Calibrator, "open file", "value") /\ UNCHANGED kept
     \/ Goes(Calibrator, "open old", "value") /\ file.exists /\ kept' = TRUE
  /\ UNCHANGED <<has, k, file, gen, got, quiet>>

\* Without a descriptor all writes fail.
OpenFileFails ==
  /\ Goes(Calibrator, "open file", "close") \/ Goes(Calibrator, "open old", "close")
  /\ UNCHANGED <<has, k, file, gen, got, kept, quiet>>

\* The number goes where the previous write ended.  (An old number of another
\* length would leave a part of itself: no property is about such a file.)
Put(lines, n, v) ==
  IF n <= Len(lines) THEN [lines EXCEPT ![n] = v] ELSE Append(lines, v)

WriteValue ==
  /\ Goes(Calibrator, "value",
          IF k[Calibrator] = N + 1 THEN "close" ELSE "newline")
  /\ LET n == k[Calibrator]
     IN  file' = [file EXCEPT !.lines = Put(@, n, [gen |-> gen, line |-> n]),
                              !.ended = @ /\ n < Len(file.lines)]
  /\ quiet' = [w \in Weighers |-> FALSE]
  /\ UNCHANGED <<has, k, gen, got, kept>>

WriteNewline ==
  /\ Goes(Calibrator, "newline", "value")
  /\ k' = [k EXCEPT ![Calibrator] = @ + 1]
  /\ file' = [file EXCEPT !.ended = @ \/ k[Calibrator] = Len(file.lines)]
  /\ quiet' = [w \in Weighers |-> FALSE]
  /\ UNCHANGED <<has, gen, got, kept>>

Calibrates ==
  \/ Start \/ OpenSensor(Calibrator, "measure") \/ Measure
  \/ Creat \/ CreatFails \/ OpenFile \/ OpenFileFails
  \/ WriteValue \/ WriteNewline

-----------------------------------------------------------------------------
(* read_weight, and test_1hm, which needs no file.                         *)

StartTest(w) ==
  /\ Goes(w, "off", "open")
  /\ UNCHANGED <<has, k, file, gen, got, kept, quiet>>

StartWeigh(w) ==
  /\ Goes(w, "off", "read")
  /\ quiet' = [quiet EXCEPT ![w] = Whole(file) /\ ~kept]
  /\ UNCHANGED <<has, k, file, gen, got, kept>>

\* Mutant: the line after the one that was asked for.
Readline_Next(l) ==
  CASE l + 1 <= Len(file.lines) -> {file.lines[l + 1]}
    [] OTHER -> {Missing, Garbage}

\* readline: the line; an empty line when the file ends just before it; and
\* no return value at all when the file ends earlier.
Readline(l) ==
  CASE l <= Len(file.lines) -> {file.lines[l]}
    [] l = Len(file.lines) + 1 /\ (file.ended \/ l = 1) -> {Missing}
    [] OTHER -> {Garbage}

\* Each line opens the file again; without a file the program crashes, as it
\* may when readline returns nothing.
ReadLine(w) ==
  /\ file.exists
  /\ Counts(w, "read", N + 1, "open")
  /\ \E v \in Readline(k[w]) : got' = [got EXCEPT ![w][k[w]] = v]
  /\ UNCHANGED <<has, file, gen, kept, quiet>>

Weighs(w) ==
  \/ StartTest(w) \/ StartWeigh(w) \/ ReadLine(w)
  \/ OpenSensor(w, "weigh")

-----------------------------------------------------------------------------
Next ==
  \/ Calibrates
  \/ \E w \in Weighers : Weighs(w)
  \/ \E p \in Procs : Ends(p)

Spec == Init /\ [][Next]_vars

-----------------------------------------------------------------------------
Places == {"off", "open", "measure", "creat", "open file", "open old",
           "value", "newline", "close", "read", "weigh"}

TypeOK ==
  /\ has \in [Procs -> SUBSET Sensors]
  /\ pc \in [Procs -> Places] /\ k \in [Procs -> Lines]
  /\ file \in [lines : Seq(Numbers), ended : BOOLEAN, exists : BOOLEAN]
  /\ Len(file.lines) <= N + 1
  /\ gen \in 0 .. MaxGens /\ kept \in BOOLEAN
  /\ got \in [Weighers -> [Lines -> Numbers \cup {Missing, Garbage}]]
  /\ quiet \in [Weighers -> BOOLEAN]

(* The file is the beginning of what one calibration writes, line for      *)
(* line, wherever a calibrator was killed: an old number stands behind a   *)
(* new one only where creat failed and the open behind it did not.         *)
OnePrefix ==
  kept \/ \E g \in 0 .. gen : \A i \in 1 .. Len(file.lines) :
            file.lines[i] = [gen |-> g, line |-> i]

(* The file rests while a weigher holds every sensor: a calibrator that    *)
(* came too late for all of them waits in its loop and writes nothing.     *)
FileRestsWhileWeighing ==
  [][(\E w \in Weighers : has[w] = Sensors) => UNCHANGED file]_vars

(* A weigher that found the file whole, as one calibration left it, and    *)
(* read it undisturbed works with the numbers of that calibration, each    *)
(* from its own line.                                                      *)
QuietReadIsWhole ==
  \A w \in Weighers : quiet[w] /\ pc[w] \in {"open", "weigh"} =>
    \E g \in 1 .. MaxGens : \A l \in Lines : got[w][l] = [gen |-> g, line |-> l]
==============================================================================
