------------------------------ MODULE ApButton -------------------------------
(***************************************************************************)
(* The access-point button driver of the ASM9260 board (LSCkey/apbtn.c):   *)
(* every edge re-arms a timer, the timer function samples the pin and      *)
(* reports it.  Unlike KeySwitch it neither masks the pin nor keeps a      *)
(* flag of its own, and it listens to both edges.                          *)
(*                                                                         *)
(* One core: an interrupt cuts into everything, the timer function into    *)
(* module init and exit.                                                   *)
(***************************************************************************)
EXTENDS KeyPort

VARIABLES
  pin,       \* level of the pin, 0 while the button is pressed
  edges,     \* history: level changes so far
  pending,   \* edge latched by the port
  enabled,   \* the port lets the pin interrupt
  hooked,    \* handler requested and granted
  timer,     \* buttons_timer armed
  tpc,       \* timer function
  pinval,    \* its sample of the pin
  reported,  \* last value given to the input core
  ppc        \* module init and exit

port == <<pin, edges, pending, enabled>>
vars == <<port, hooked, timer, tpc, pinval, reported, ppc>>

Raised == hooked /\ enabled /\ pending
TimerMayRun == ~Raised
ProcessMayRun == ~Raised /\ tpc = "idle"

Init ==
  /\ pin = 1 /\ edges = 0 /\ pending = FALSE /\ enabled = FALSE
  /\ hooked = FALSE /\ timer = FALSE
  /\ tpc = "idle" /\ pinval = 1 /\ reported = 0 /\ ppc = "off"

PinMoves ==
  /\ edges < MaxEdges
  /\ edges' = edges + 1
  /\ pin' = 1 - pin
  /\ pending' = (pending \/ enabled \/ LatchesMasked)
  /\ UNCHANGED <<enabled, hooked, timer, tpc, pinval, reported, ppc>>

-----------------------------------------------------------------------------
(* buttons_irq.                                                            *)

\* Mutant: the interrupt leaves a timer alone whose function is running.
Irq_KeepTimer ==
  /\ Raised
  /\ pending' = FALSE
  /\ timer' = (timer \/ tpc = "idle")
  /\ UNCHANGED <<pin, edges, enabled, hooked, tpc, pinval, reported, ppc>>

Irq ==
  /\ Raised
  /\ pending' = FALSE
  /\ timer' = TRUE
  /\ UNCHANGED <<pin, edges, enabled, hooked, tpc, pinval, reported, ppc>>

-----------------------------------------------------------------------------
(* buttons_timer_function.                                                 *)

TimerFires ==
  /\ TimerMayRun /\ timer /\ tpc = "idle"
  /\ timer' = FALSE
  /\ pinval' = pin
  /\ tpc' = "sampled"
  /\ UNCHANGED <<port, hooked, reported, ppc>>

\* Mutant: only a press is reported.
Report_PressOnly ==
  /\ TimerMayRun /\ tpc = "sampled"
  /\ reported' = IF pinval = 0 THEN 1 ELSE reported
  /\ tpc' = "reported"
  /\ UNCHANGED <<port, hooked, timer, pinval, ppc>>

Report ==
  /\ TimerMayRun /\ tpc = "sampled"
  /\ reported' = IF pinval = 0 THEN 1 ELSE 0
  /\ tpc' = "reported"
  /\ UNCHANGED <<port, hooked, timer, pinval, ppc>>

Enable ==
  /\ TimerMayRun /\ tpc = "reported"
  /\ enabled' = TRUE
  /\ tpc' = "idle"
  /\ UNCHANGED <<pin, edges, pending, hooked, timer, pinval, reported, ppc>>

Timer == TimerFires \/ Report \/ Enable

-----------------------------------------------------------------------------
(* buttons_init and buttons_exit.                                          *)

Goes(from, to) == ProcessMayRun /\ ppc = from /\ ppc' = to

\* add_timer for an expiry that is already past.
InitTimer ==
  /\ Goes("off", "timed")
  /\ timer' = TRUE
  /\ UNCHANGED <<port, hooked, tpc, pinval, reported>>

\* request_irq may fail; init prints that and goes on.
InitHook ==
  /\ Goes("timed", "asked")
  /\ hooked' \in BOOLEAN
  /\ UNCHANGED <<port, timer, tpc, pinval, reported>>

InitEnable ==
  /\ Goes("asked", "on")
  /\ enabled' = TRUE
  /\ UNCHANGED <<pin, edges, pending, hooked, timer, tpc, pinval, reported>>

\* free_irq; the port is not told to stop.
ExitUnhook ==
  /\ Goes("on", "unhooked")
  /\ hooked' = FALSE
  /\ UNCHANGED <<port, timer, tpc, pinval, reported>>

\* Mutant: the timer is not deleted.
ExitTimer_Forgotten ==
  /\ Goes("unhooked", "off")
  /\ UNCHANGED <<port, hooked, timer, tpc, pinval, reported>>

\* del_timer, after which the input device is unregistered and freed.
ExitTimer ==
  /\ Goes("unhooked", "off")
  /\ timer' = FALSE
  /\ UNCHANGED <<port, hooked, tpc, pinval, reported>>

Module == InitTimer \/ InitHook \/ InitEnable \/ ExitUnhook \/ ExitTimer

-----------------------------------------------------------------------------
Next == PinMoves \/ Irq \/ Timer \/ Module
Spec == Init /\ [][Next]_vars
FairSpec == Spec /\ WF_vars(Irq) /\ WF_vars(Timer)

-----------------------------------------------------------------------------
TypeOK ==
  /\ pin \in {0, 1} /\ edges \in 0 .. MaxEdges
  /\ pending \in BOOLEAN /\ enabled \in BOOLEAN /\ hooked \in BOOLEAN
  /\ timer \in BOOLEAN /\ tpc \in {"idle", "sampled", "reported"}
  /\ pinval \in {0, 1} /\ reported \in {0, 1}
  /\ ppc \in {"off", "timed", "asked", "on", "unhooked"}

(* A report that disagrees with the button is about to be corrected by a   *)
(* driver that got its interrupt: an edge is pending, the timer is armed,  *)
(* or its function has just sampled the pin.  On a port that drops edges   *)
(* this can fail only while the pin is not enabled yet.                    *)
WrongReportIsTransient ==
  LatchesMasked /\ ppc = "on" /\ hooked /\ reported = pin =>
    \/ pending
    \/ timer
    \/ tpc = "sampled" /\ pinval = pin

(* Nothing is reported through an input device that is gone.               *)
NoTimerAfterExit == ppc = "off" => ~timer /\ tpc = "idle"

(* A button that stays as it is is reported as it is, unless request_irq   *)
(* failed: then the driver is loaded and waits for an interrupt nobody     *)
(* handles.                                                                *)
LevelIsReported ==
  LatchesMasked =>
    \A v \in {0, 1} : <>[](ppc = "on" /\ hooked /\ pin = v) => <>[](reported = 1 - v)

==============================================================================
