--------------------------- MODULE ApButtonProofs ----------------------------
(***************************************************************************)
(* Proofs about ApButton, for any number of edges and either kind of port. *)
(*                                                                         *)
(* WrongReportIsTransient is not inductive: a sample may be overtaken by   *)
(* an edge, and the report that follows is then wrong at once.  OldSample  *)
(* says that such a sample has its successor on the way already.           *)
(***************************************************************************)
EXTENDS ApButton, TLAPS

Loaded == {"timed", "asked", "on"}

Hooked ==
  /\ hooked => ppc \in {"asked", "on"}
  /\ ppc = "off" => ~timer /\ tpc = "idle"

OldSample ==
  LatchesMasked /\ ppc \in Loaded /\ tpc = "sampled" /\ pinval # pin =>
    pending \/ timer

Corrected ==
  LatchesMasked /\ ppc \in Loaded /\ reported = pin =>
    pending \/ timer \/ (tpc = "sampled" /\ pinval = pin)

IInv == TypeOK /\ Hooked /\ OldSample /\ Corrected

LEMMA InitInductive == Init => IInv
<1> SUFFICES ASSUME Init PROVE IInv
  OBVIOUS
<1>1. TypeOK
  <2>1. edges \in 0 .. MaxEdges  BY ConstantsOK DEF Init
  <2>2. /\ pending \in BOOLEAN /\ enabled \in BOOLEAN
        /\ hooked \in BOOLEAN /\ timer \in BOOLEAN
    BY Zenon DEF Init
  <2>3. pin \in {0, 1} /\ pinval \in {0, 1} /\ reported \in {0, 1}
    BY DEF Init
  <2>4. tpc = "idle" /\ ppc = "off"  BY DEF Init
  <2> QED  BY <2>1, <2>2, <2>3, <2>4 DEF TypeOK
<1>2. Hooked
  BY DEF Init, Hooked
<1>3. OldSample
  BY DEF Init, OldSample
<1>4. Corrected
  BY DEF Init, Corrected, Loaded
<1> QED  BY <1>1, <1>2, <1>3, <1>4 DEF IInv

LEMMA StepInductive == IInv /\ [Next]_vars => IInv'
<1> SUFFICES ASSUME IInv, [Next]_vars PROVE IInv'
  OBVIOUS
<1> USE ConstantsOK
    DEF IInv, TypeOK, Hooked, OldSample, Corrected, Loaded, port, Goes
<1>1. CASE PinMoves
  <2>1. TypeOK'  BY <1>1 DEF PinMoves
  <2>2. Hooked'  BY <1>1 DEF PinMoves
  <2>3. OldSample' /\ Corrected'  BY <1>1 DEF PinMoves
  <2> QED  BY <2>1, <2>2, <2>3
<1>2. CASE Irq
  BY <1>2 DEF Irq, Raised
<1>3. CASE Timer
  <2>1. CASE TimerFires  BY <2>1 DEF TimerFires
  <2>2. CASE Report      BY <2>2 DEF Report
  <2>3. CASE Enable      BY <2>3 DEF Enable
  <2> QED  BY <1>3, <2>1, <2>2, <2>3 DEF Timer
<1>4. CASE Module
  <2> USE DEF ProcessMayRun
  <2>1. CASE InitTimer   BY <2>1 DEF InitTimer
  <2>2. CASE InitHook    BY <2>2 DEF InitHook
  <2>3. CASE InitEnable  BY <2>3 DEF InitEnable
  <2>4. CASE ExitUnhook  BY <2>4 DEF ExitUnhook
  <2>5. CASE ExitTimer   BY <2>5 DEF ExitTimer
  <2> QED  BY <1>4, <2>1, <2>2, <2>3, <2>4, <2>5 DEF Module
<1>5. CASE UNCHANGED vars
  BY <1>5 DEF vars
<1> QED  BY <1>1, <1>2, <1>3, <1>4, <1>5 DEF Next

LEMMA Inductive == Spec => []IInv
BY InitInductive, StepInductive, PTL DEF Spec

(* The driver keeps the types of its state.                                *)
THEOREM TypeCorrect == Spec => []TypeOK
<1>1. IInv => TypeOK  BY DEF IInv
<1> QED  BY <1>1, Inductive, PTL

(* buttons_irq and buttons_timer_function: a report that disagrees with    *)
(* the button always has its correction on the way.                        *)
THEOREM ReportsAreCorrected == Spec => []WrongReportIsTransient
<1>1. IInv => WrongReportIsTransient
  BY DEF IInv, Corrected, Loaded, WrongReportIsTransient
<1> QED  BY <1>1, Inductive, PTL

(* buttons_exit: no timer outlives the input device.                       *)
THEOREM ExitStopsTimer == Spec => []NoTimerAfterExit
<1>1. IInv => NoTimerAfterExit
  BY DEF IInv, Hooked, NoTimerAfterExit
<1> QED  BY <1>1, Inductive, PTL
==============================================================================
