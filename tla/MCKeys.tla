------------------------------- MODULE MCKeys --------------------------------
(* The board carries one of the two keys: KeySwitch or ApButton is loaded, *)
(* the variables of the other stay as they are.                            *)
EXTENDS KeySwitch

VARIABLES bpin, bedges, bpending, benabled, bhooked, btimer, btpc, pinval, breported, bppc

bvars == <<bpin, bedges, bpending, benabled, bhooked, btimer, btpc, pinval, breported, bppc>>

Button == INSTANCE ApButton WITH
  pin <- bpin, edges <- bedges, pending <- bpending, enabled <- benabled, hooked <- bhooked,
  timer <- btimer, tpc <- btpc, reported <- breported, ppc <- bppc

OneKeyInit == Init /\ Button!Init

ButtonRests == Button!Init /\ UNCHANGED bvars

SwitchRests == Init /\ UNCHANGED vars

OneKeyNext ==
  \/ Next /\ ButtonRests
  \/ Button!Next /\ SwitchRests

OneKey == OneKeyInit /\ [][OneKeyNext]_<<vars, bvars>>

(* Interrupts and armed timers run, whichever driver is loaded.            *)
FairOneKey ==
  /\ OneKey
  /\ WF_vars(Irq /\ UNCHANGED bvars) /\ WF_vars(Timer /\ UNCHANGED bvars)
  /\ WF_bvars(Button!Irq /\ UNCHANGED vars)
  /\ WF_bvars(Button!Timer /\ UNCHANGED vars)

(* Every driver, loaded or not, keeps the types of its state.              *)
TypesOK == TypeOK /\ Button!TypeOK

(* A report of the button that disagrees with it is about to be corrected  *)
(* by a driver that got its interrupt.                                     *)
WrongReportIsTransient == Button!WrongReportIsTransient

(* The button reports nothing through an input device that is gone.        *)
NoTimerAfterExit == Button!NoTimerAfterExit

(* A button that stays as it is is reported as it is by a driver that got  *)
(* its interrupt.                                                          *)
LevelIsReported == Button!LevelIsReported
==============================================================================
