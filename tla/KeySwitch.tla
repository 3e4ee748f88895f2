------------------------------ MODULE KeySwitch ------------------------------
(***************************************************************************)
(* The key driver of the ASM9260 board (key/key_driver/key_driver.c): a    *)
(* falling edge masks the pin and arms a timer, the timer function waits,  *)
(* samples the pin, reports the key and lets the pin interrupt again.      *)
(*                                                                         *)
(* One core: the interrupt handler cuts into the timer function and into   *)
(* probe and remove, the timer function (a soft interrupt) into probe and  *)
(* remove.                                                                 *)
(***************************************************************************)
EXTENDS KeyPort

VARIABLES
  pin,         \* level of the key's pin, 0 while it is pressed
  edges,       \* history: level changes so far
  pending,     \* falling edge latched by the port
  enabled,     \* the port lets the pin interrupt
  hooked,      \* handler requested and granted
  kerneltime,  \* set by the handler, cleared by the timer function
  timer,       \* AP_switch_timer armed
  tpc,         \* timer function
  level,       \* its sample of the pin
  reported,    \* last value given to the input core
  ppc,         \* probe and remove
  overtaken    \* history: an interrupt cut into the timer function

port == <<pin, edges, pending, enabled>>
vars == <<port, hooked, kerneltime, timer, tpc, level, reported, ppc, overtaken>>

Raised == hooked /\ enabled /\ pending
TimerMayRun == ~Raised
ProcessMayRun == ~Raised /\ tpc = "idle"

Init ==
  /\ pin = 1 /\ edges = 0 /\ pending = FALSE /\ enabled = FALSE
  /\ hooked = FALSE /\ kerneltime = 0 /\ timer = FALSE
  /\ tpc = "idle" /\ level = 1 /\ reported = 0
  /\ ppc = "off" /\ overtaken = FALSE

(* The key, with its bounces.                                              *)
PinMoves ==
  /\ edges < MaxEdges
  /\ edges' = edges + 1
  /\ pin' = 1 - pin
  /\ pending' = (pending \/ (pin = 1 /\ (enabled \/ LatchesMasked)))
  /\ UNCHANGED <<enabled, hooked, kerneltime, timer, tpc, level, reported, ppc, overtaken>>

-----------------------------------------------------------------------------
(* AP_switchs_irq.                                                         *)
Irq ==
  /\ Raised
  /\ kerneltime' = 1
  /\ enabled' = FALSE /\ pending' = FALSE
  /\ timer' = TRUE
  /\ overtaken' = (overtaken \/ tpc # "idle")
  /\ UNCHANGED <<pin, edges, hooked, tpc, level, reported, ppc>>

-----------------------------------------------------------------------------
(* AP_switchs_timer_function.                                              *)

TimerFires ==
  /\ TimerMayRun /\ timer /\ tpc = "idle"
  /\ timer' = FALSE
  /\ tpc' = IF kerneltime = 0 THEN "idle" ELSE "delay"
  /\ UNCHANGED <<port, hooked, kerneltime, level, reported, ppc, overtaken>>

\* Mutant: the sample is the port's data register, not the pin's bit of it.
Sample_Unmasked ==
  /\ TimerMayRun /\ tpc = "delay"
  /\ level' = 2 * pin
  /\ tpc' = "sampled"
  /\ UNCHANGED <<port, hooked, kerneltime, timer, reported, ppc, overtaken>>

\* mdelay(10) is over.
Sample ==
  /\ TimerMayRun /\ tpc = "delay"
  /\ level' = pin
  /\ tpc' = "sampled"
  /\ UNCHANGED <<port, hooked, kerneltime, timer, reported, ppc, overtaken>>

\* Mutant: the two reports are swapped.
Report_Swapped ==
  /\ TimerMayRun /\ tpc = "sampled"
  /\ reported' = level
  /\ tpc' = "reported"
  /\ UNCHANGED <<port, hooked, kerneltime, timer, level, ppc, overtaken>>

Report ==
  /\ TimerMayRun /\ tpc = "sampled"
  /\ reported' = 1 - level
  /\ tpc' = "reported"
  /\ UNCHANGED <<port, hooked, kerneltime, timer, level, ppc, overtaken>>

\* Mutant: the pin is let interrupt again only for a pressed key.
Enable_PressedOnly ==
  /\ TimerMayRun /\ tpc = "reported"
  /\ enabled' = (enabled \/ level = 0)
  /\ tpc' = "enabled"
  /\ UNCHANGED <<pin, edges, pending, hooked, kerneltime, timer, level, reported, ppc, overtaken>>

Enable ==
  /\ TimerMayRun /\ tpc = "reported"
  /\ enabled' = TRUE
  /\ tpc' = "enabled"
  /\ UNCHANGED <<pin, edges, pending, hooked, kerneltime, timer, level, reported, ppc, overtaken>>

ClearTime ==
  /\ TimerMayRun /\ tpc = "enabled"
  /\ kerneltime' = 0
  /\ tpc' = "idle"
  /\ UNCHANGED <<port, hooked, timer, level, reported, ppc, overtaken>>

Timer == TimerFires \/ Sample \/ Report \/ Enable \/ ClearTime

-----------------------------------------------------------------------------
(* key_probe and key_remove.                                               *)

Goes(from, to) == ProcessMayRun /\ ppc = from /\ ppc' = to

\* The pin may interrupt before the handler is there; add_timer arms the
\* timer for an expiry that is already past.
ProbeEnable ==
  /\ Goes("off", "enabled")
  /\ enabled' = TRUE /\ timer' = TRUE
  /\ UNCHANGED <<pin, edges, pending, hooked, kerneltime, tpc, level, reported, overtaken>>

\* request_irq may fail; probe prints that and the driver stays loaded.
ProbeHook ==
  /\ Goes("enabled", "on")
  /\ hooked' \in BOOLEAN
  /\ UNCHANGED <<port, kerneltime, timer, tpc, level, reported, overtaken>>

RemoveDisable ==
  /\ Goes("on", "disabled")
  /\ enabled' = FALSE
  /\ UNCHANGED <<pin, edges, pending, hooked, kerneltime, timer, tpc, level, reported, overtaken>>

RemoveUnhook ==
  /\ Goes("disabled", "unhooked")
  /\ hooked' = FALSE
  /\ UNCHANGED <<port, kerneltime, timer, tpc, level, reported, overtaken>>

\* Mutant: the timer is not deleted.
RemoveTimer_Forgotten ==
  /\ Goes("unhooked", "off")
  /\ UNCHANGED <<port, hooked, kerneltime, timer, tpc, level, reported, overtaken>>

\* del_timer, after which the input device is unregistered and freed.
RemoveTimer ==
  /\ Goes("unhooked", "off")
  /\ timer' = FALSE
  /\ UNCHANGED <<port, hooked, kerneltime, tpc, level, reported, overtaken>>

Module == ProbeEnable \/ ProbeHook \/ RemoveDisable \/ RemoveUnhook \/ RemoveTimer

-----------------------------------------------------------------------------
Next == PinMoves \/ Irq \/ Timer \/ Module
Spec == Init /\ [][Next]_vars

(* Interrupts and armed timers run.                                        *)
FairSpec == Spec /\ WF_vars(Irq) /\ WF_vars(Timer)

-----------------------------------------------------------------------------
TypeOK ==
  /\ pin \in {0, 1} /\ edges \in 0 .. MaxEdges
  /\ pending \in BOOLEAN /\ enabled \in BOOLEAN /\ hooked \in BOOLEAN
  /\ kerneltime \in {0, 1} /\ timer \in BOOLEAN
  /\ tpc \in {"idle", "delay", "sampled", "reported", "enabled"}
  /\ level \in {0, 1} /\ reported \in {0, 1}
  /\ ppc \in {"off", "enabled", "on", "disabled", "unhooked"}
  /\ overtaken \in BOOLEAN

(* Nothing is reported through an input device that is gone: once remove   *)
(* is over no timer is armed and no timer function runs.                   *)
NoTimerAfterRemove == ppc = "off" => ~timer /\ tpc = "idle"

(* A loaded driver whose pin may not interrupt is on its way to let it     *)
(* interrupt again, except when an interrupt cut into the timer function.  *)
DeafOnlyWhenOvertaken ==
  ppc = "on" /\ ~enabled /\ ~overtaken => (timer /\ kerneltime = 1) \/ tpc # "idle"

(* A press that lasts is reported, on a port that latches masked edges,    *)
(* unless request_irq failed and left a loaded driver without its handler, *)
(* an interrupt cut into the timer function, or remove comes first.        *)
PressReported ==
  LatchesMasked =>
    ((ppc = "on" /\ hooked /\ pin = 0) ~> (reported = 1 \/ pin = 1 \/ ppc # "on" \/ overtaken))

(* key_driver.c:41 "10ms后启动定时器" (10 ms later the timer is started):  *)
(* a masked pin always has the timer that will let it interrupt again.     *)
MaskedPinHasTimer ==
  ppc = "on" /\ ~enabled => (timer /\ kerneltime = 1) \/ tpc # "idle"

(* key_driver.c:118 "清除引脚中断功能" (the pin's interrupt function is    *)
(* removed): after remove the pin does not interrupt.                      *)
PinOffAfterRemove == ppc = "off" => ~enabled

==============================================================================
