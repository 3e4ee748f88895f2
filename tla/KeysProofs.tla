------------------------------ MODULE KeysProofs ------------------------------
(***************************************************************************)
(* Proofs about KeySwitch, for any number of edges and either kind of      *)
(* port: the interrupt that cuts into the timer function is the only way   *)
(* to lose the key, and remove leaves no timer behind.  At the end, what   *)
(* ApButtonProofs shows of the other key holds of a board that may carry   *)
(* either.                                                                 *)
(***************************************************************************)
EXTENDS MCKeys, TLAPS

(* The handler is there between probe and remove only, and nothing of the  *)
(* driver runs outside of them.                                            *)
Hooked ==
  /\ hooked => ppc \in {"on", "disabled"}
  /\ ppc = "off" => ~timer /\ tpc = "idle"
  /\ ppc = "enabled" => enabled

(* Once the timer function has enabled the pin only an interrupt masks it. *)
EnabledStays ==
  ppc = "on" /\ tpc = "enabled" => enabled \/ overtaken

IInv == TypeOK /\ Hooked /\ EnabledStays /\ DeafOnlyWhenOvertaken

LEMMA InitInductive == Init => IInv
<1> SUFFICES ASSUME Init PROVE IInv
  OBVIOUS
<1>1. TypeOK
  <2>1. edges \in 0 .. MaxEdges  BY ConstantsOK DEF Init
  <2>2. /\ pending \in BOOLEAN /\ enabled \in BOOLEAN /\ hooked \in BOOLEAN
        /\ timer \in BOOLEAN /\ overtaken \in BOOLEAN
    BY Zenon DEF Init
  <2>3. /\ pin \in {0, 1} /\ kerneltime \in {0, 1} /\ level \in {0, 1} /\ reported \in {0, 1}
    BY DEF Init
  <2>4. tpc = "idle" /\ ppc = "off"  BY DEF Init
  <2> QED  BY <2>1, <2>2, <2>3, <2>4 DEF TypeOK
<1>2. Hooked
  BY DEF Init, Hooked
<1>3. EnabledStays
  BY DEF Init, EnabledStays
<1>4. DeafOnlyWhenOvertaken
  BY DEF Init, DeafOnlyWhenOvertaken
<1> QED  BY <1>1, <1>2, <1>3, <1>4 DEF IInv

LEMMA StepInductive == IInv /\ [Next]_vars => IInv'
<1> SUFFICES ASSUME IInv, [Next]_vars PROVE IInv'
  OBVIOUS
<1> USE ConstantsOK
    DEF IInv, TypeOK, Hooked, EnabledStays, DeafOnlyWhenOvertaken, port, Goes
<1>1. CASE PinMoves
  BY <1>1 DEF PinMoves
<1>2. CASE Irq
  BY <1>2 DEF Irq, Raised
<1>3. CASE Timer
  <2>1. CASE TimerFires
    <3>1. CASE kerneltime = 0
      <4>1. tpc' = tpc /\ kerneltime' = kerneltime  BY <2>1, <3>1 DEF TimerFires
      <4>2. TypeOK' /\ Hooked' /\ EnabledStays'  BY <2>1, <4>1 DEF TimerFires
      <4>3. DeafOnlyWhenOvertaken'  BY <2>1, <3>1, <4>1 DEF TimerFires
      <4> QED  BY <4>2, <4>3
    <3>2. CASE kerneltime = 1
      <4>1. tpc' = "delay" /\ ppc # "off"  BY <2>1, <3>2 DEF TimerFires
      <4>2. TypeOK'  BY <2>1, <4>1 DEF TimerFires
      <4>3. Hooked'  BY <2>1, <4>1 DEF TimerFires
      <4>4. EnabledStays' /\ DeafOnlyWhenOvertaken'  BY <4>1
      <4> QED  BY <4>2, <4>3, <4>4
    <3> QED  BY <3>1, <3>2
  <2>2. CASE Sample      BY <2>2 DEF Sample
  <2>3. CASE Report      BY <2>3 DEF Report
  <2>4. CASE Enable      BY <2>4 DEF Enable
  <2>5. CASE ClearTime   BY <2>5 DEF ClearTime
  <2> QED  BY <1>3, <2>1, <2>2, <2>3, <2>4, <2>5 DEF Timer
<1>4. CASE Module
  <2> USE DEF ProcessMayRun
  <2>1. CASE ProbeEnable    BY <2>1 DEF ProbeEnable
  <2>2. CASE ProbeHook      BY <2>2 DEF ProbeHook
  <2>3. CASE RemoveDisable  BY <2>3 DEF RemoveDisable
  <2>4. CASE RemoveUnhook   BY <2>4 DEF RemoveUnhook
  <2>5. CASE RemoveTimer    BY <2>5 DEF RemoveTimer
  <2> QED  BY <1>4, <2>1, <2>2, <2>3, <2>4, <2>5 DEF Module
<1>5. CASE UNCHANGED vars
  BY <1>5 DEF vars
<1> QED  BY <1>1, <1>2, <1>3, <1>4, <1>5 DEF Next

LEMMA Inductive == Spec => []IInv
BY InitInductive, StepInductive, PTL DEF Spec

(* The driver keeps the types of its state.                                *)
THEOREM TypeCorrect == Spec => []TypeOK
<1>1. IInv => TypeOK  BY DEF IInv
<1> QED  BY <1>1, Inductive, PTL

(* AP_switchs_irq and AP_switchs_timer_function: a masked key without a    *)
(* timer on its way takes an interrupt inside the timer function.          *)
THEOREM DeafnessHasOneCause == Spec => []DeafOnlyWhenOvertaken
<1>1. IInv => DeafOnlyWhenOvertaken  BY DEF IInv
<1> QED  BY <1>1, Inductive, PTL

(* key_remove: no timer outlives the input device.                         *)
THEOREM RemoveStopsTimer == Spec => []NoTimerAfterRemove
<1>1. IInv => NoTimerAfterRemove  BY DEF IInv, Hooked, NoTimerAfterRemove
<1> QED  BY <1>1, Inductive, PTL

-----------------------------------------------------------------------------
(* The board, which has one key or the other.                              *)

Proved == INSTANCE ApButtonProofs WITH
  pin <- bpin, edges <- bedges, pending <- bpending, enabled <- benabled, hooked <- bhooked,
  timer <- btimer, tpc <- btpc, reported <- breported, ppc <- bppc

\* What the board does with the button is what the button does, or nothing.
LEMMA BoardHasButton == OneKey => Proved!Spec
<1>1. OneKeyInit => Proved!Init
  BY DEF OneKeyInit, Button!Init, Proved!Init
<1>2. Button!Next => Proved!Next
  <2>1. Button!PinMoves => Proved!PinMoves
    BY DEF Button!PinMoves, Proved!PinMoves
  <2>2. Button!Irq => Proved!Irq
    BY DEF Button!Irq, Proved!Irq, Button!Raised, Proved!Raised, Button!vars,
           Proved!vars, Button!port, Proved!port
  <2>3. Button!Timer => Proved!Timer
    BY DEF Button!Timer, Proved!Timer, Button!TimerFires, Proved!TimerFires,
           Button!Report, Proved!Report, Button!Enable, Proved!Enable,
           Button!TimerMayRun, Proved!TimerMayRun, Button!Raised, Proved!Raised,
           Button!port, Proved!port
  <2>4. Button!Module => Proved!Module
    BY DEF Button!Module, Proved!Module, Button!InitTimer, Proved!InitTimer,
           Button!InitHook, Proved!InitHook, Button!InitEnable, Proved!InitEnable,
           Button!ExitUnhook, Proved!ExitUnhook, Button!ExitTimer, Proved!ExitTimer,
           Button!Goes, Proved!Goes, Button!ProcessMayRun, Proved!ProcessMayRun,
           Button!Raised, Proved!Raised, Button!port, Proved!port
  <2> QED
    BY <2>1, <2>2, <2>3, <2>4 DEF Button!Next, Proved!Next
<1>3. [OneKeyNext]_<<vars, bvars>> => [Proved!Next]_(Proved!vars)
  BY <1>2 DEF OneKeyNext, ButtonRests, bvars, Proved!vars, Proved!port
<1> QED
  BY <1>1, <1>3, PTL DEF OneKey, Proved!Spec

\* The same of the switch.
LEMMA BoardHasSwitch == OneKey => Spec
<1>1. OneKeyInit => Init
  BY DEF OneKeyInit
<1>2. [OneKeyNext]_<<vars, bvars>> => [Next]_vars
  BY DEF OneKeyNext, SwitchRests
<1> QED
  BY <1>1, <1>2, PTL DEF OneKey, Spec

(* Both drivers keep the types of their state on the board.                *)
THEOREM BoardKeepsTypes == OneKey => []TypesOK
<1>1. Proved!Spec => []Proved!TypeOK
  BY Proved!TypeCorrect, ConstantsOK, PTL
<1>2. TypeOK /\ Proved!TypeOK => TypesOK
  BY DEF TypesOK, Proved!TypeOK, Button!TypeOK
<1> QED
  BY <1>1, <1>2, TypeCorrect, BoardHasSwitch, BoardHasButton, PTL

(* buttons_irq and buttons_timer_function on the board.                    *)
THEOREM BoardCorrectsReports == OneKey => []WrongReportIsTransient
<1>1. Proved!Spec => []Proved!WrongReportIsTransient
  BY Proved!ReportsAreCorrected, ConstantsOK, PTL
<1>2. Proved!WrongReportIsTransient => WrongReportIsTransient
  BY DEF WrongReportIsTransient, Proved!WrongReportIsTransient,
         Button!WrongReportIsTransient
<1> QED
  BY <1>1, <1>2, BoardHasButton, PTL

(* buttons_exit on the board.                                              *)
THEOREM BoardStopsTimer == OneKey => []NoTimerAfterExit
<1>1. Proved!Spec => []Proved!NoTimerAfterExit
  BY Proved!ExitStopsTimer, ConstantsOK, PTL
<1>2. Proved!NoTimerAfterExit => NoTimerAfterExit
  BY DEF NoTimerAfterExit, Proved!NoTimerAfterExit, Button!NoTimerAfterExit
<1> QED
  BY <1>1, <1>2, BoardHasButton, PTL
==============================================================================
