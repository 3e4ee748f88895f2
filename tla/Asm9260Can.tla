----------------------------- MODULE Asm9260Can -----------------------------
(***************************************************************************)
(* The SocketCAN driver of the ASM9260 board (asm9260.c) with the CAN      *)
(* controller it drives and the calls the kernel makes into it.            *)
(*                                                                         *)
(* The ASM9260 is a single-core ARM9: its interrupt handler runs to the    *)
(* end before any other code of the kernel continues, start_xmit runs with *)
(* soft interrupts off, and the restart timer is a soft interrupt that may *)
(* cut into open and close.  The controller runs in parallel with all of   *)
(* them, so every register access is a point where it may have moved on.   *)
(***************************************************************************)
EXTENDS Integers, Sequences, FiniteSets

CONSTANTS
  MaxIrq,       \* ASM9260_MAX_IRQ, passes of the interrupt loop
  FifoDepth,    \* frames the controller's receive buffer holds
  MaskedLatch,  \* does a source that IER masks still set its bit in IR?
  ModeMayFail,  \* may the controller ignore 100 writes of the mode register?
  AutoRestart,  \* restart_ms # 0: the CAN core restarts the device itself
  MaxFrames,    \* bound: frames handed to start_xmit
  MaxEvents     \* bound: frames and errors the bus produces

ASSUME ConstantsOK ==
  /\ MaxIrq \in Nat \ {0}
  /\ FifoDepth \in Nat \ {0}
  /\ MaskedLatch \in BOOLEAN
  /\ ModeMayFail \in BOOLEAN
  /\ AutoRestart \in BOOLEAN
  /\ MaxFrames \in Nat
  /\ MaxEvents \in Nat

NoFrame == 0
Frames == 1 .. MaxFrames

Irq == {"TI", "RI", "DOI", "EI", "EPI", "ALI"}
Enabled == {"TI", "RI", "DOI", "EPI", "ALI"}    \* IER = 0x7b: EI (0x04) is off
ErrIrq == {"DOI", "EI", "EPI", "ALI"}
States == {"STOPPED", "ACTIVE", "WARNING", "PASSIVE", "BUS_OFF"}
Levels == {"active", "warning", "passive", "busoff"}

VARIABLES
  \* the controller
  mod,        \* "reset" or "normal": MOD_RM
  ier,        \* are the interrupts of IER on?
  ir,         \* REG_IR: latched interrupt sources
  err,        \* what the error counters say (SR_ES, SR_BS)
  tx,         \* the frame being transmitted
  rx,         \* frames in the receive buffer (SR_RBS)
  overrun,    \* SR_DOS
  done,       \* history: frames that went out on the bus
  events,     \* history: events the bus produced
  \* the driver and the CAN core's part of its private data
  state,      \* priv->can.state
  opened,     \* priv->open_time # 0
  awake,      \* transmit queue not stopped
  carrier,    \* netif_carrier_ok
  irqOn,      \* handler requested
  echo,       \* echo_skb[0]
  timer,      \* restart_timer armed
  looped,     \* history: frames looped back to the sockets
  sent,       \* frames handed to start_xmit so far
  txPackets,  \* stats->tx_packets
  lost,       \* history: sources wiped from IR unread since the queue was started
  raced,      \* history: a restart ran inside close
  \* where each context is
  kpc,        \* open and close
  xpc,        \* start_xmit
  rpc,        \* can_restart
  ipc,        \* asm9260_interrupt
  isrc,       \* the handler's copy of IR
  n,          \* the handler's pass counter
  status      \* the handler's copy of the status register: SR_ES and SR_BS

chip == <<mod, ier, ir, err, tx, rx, overrun, done, events>>
net == <<awake, carrier, echo, looped>>
handler == <<ipc, isrc, n, status>>
vars == <<chip, state, opened, irqOn, timer, sent, txPackets, lost, raced,
          net, kpc, xpc, rpc, handler>>

-----------------------------------------------------------------------------
(* Who may run.  A raised interrupt is taken before the next access of any *)
(* other code, which waits until the handler returns; a soft interrupt     *)
(* excludes process context.                                               *)

Raised == irqOn /\ ier /\ ir \cap Enabled # {}

SoftIrqMayRun == ipc = "idle" /\ ~Raised
ProcessMayRun == SoftIrqMayRun /\ rpc = "idle"

Init ==
  /\ mod = "reset" /\ ier = FALSE /\ ir = {} /\ err = "active"
  /\ tx = NoFrame /\ rx = 0 /\ overrun = FALSE /\ done = {} /\ events = 0
  /\ state = "STOPPED" /\ opened = FALSE /\ irqOn = FALSE /\ timer = FALSE
  /\ sent = 0 /\ txPackets = 0 /\ lost = {} /\ raced = FALSE
  /\ awake = TRUE /\ carrier = TRUE /\ echo = NoFrame /\ looped = <<>>
  /\ kpc = "down" /\ xpc = "idle" /\ rpc = "idle"
  /\ ipc = "idle" /\ isrc = {} /\ n = 0 /\ status = "active"

-----------------------------------------------------------------------------
(* The controller.                                                         *)

Latch(s) == IF MaskedLatch \/ (ier /\ s \in Enabled) THEN ir \cup {s} ELSE ir

ChipSends ==
  /\ mod = "normal" /\ tx # NoFrame
  /\ tx' = NoFrame
  /\ done' = done \cup {tx}
  /\ ir' = Latch("TI")
  /\ UNCHANGED <<mod, ier, err, rx, overrun, events>>

BusEvent == mod = "normal" /\ events < MaxEvents /\ events' = events + 1

ChipReceives ==
  /\ BusEvent
  /\ \/ rx < FifoDepth /\ rx' = rx + 1 /\ ir' = Latch("RI") /\ UNCHANGED overrun
     \/ rx = FifoDepth /\ ~overrun /\ overrun' = TRUE /\ ir' = Latch("DOI") /\ UNCHANGED rx
  /\ UNCHANGED <<mod, ier, err, tx, done>>

ChipLosesArbitration ==
  /\ BusEvent /\ tx # NoFrame
  /\ ir' = Latch("ALI")
  /\ UNCHANGED <<mod, ier, err, tx, rx, overrun, done>>

ChipErrorLevel ==
  /\ BusEvent
  /\ \/ /\ \/ err = "active" /\ err' = "warning"
           \/ err = "warning" /\ err' = "active"
        /\ ir' = Latch("EI")
     \/ /\ \/ err = "warning" /\ err' = "passive"
           \/ err = "passive" /\ err' = "warning"
        /\ ir' = Latch("EPI")
  /\ UNCHANGED <<mod, ier, tx, rx, overrun, done>>

\* Bus-off puts the controller into reset mode, which drops what it holds.
ChipBusOff ==
  /\ BusEvent /\ err = "passive"
  /\ err' = "busoff" /\ ir' = Latch("EI")
  /\ mod' = "reset" /\ tx' = NoFrame /\ rx' = 0 /\ overrun' = FALSE
  /\ UNCHANGED <<ier, done>>

Chip ==
  /\ ChipSends \/ ChipReceives \/ ChipLosesArbitration \/ ChipErrorLevel \/ ChipBusOff
  /\ UNCHANGED <<state, opened, irqOn, timer, sent, txPackets, lost, raced,
                 net, kpc, xpc, rpc, handler>>

-----------------------------------------------------------------------------
(* Mode changes.                                                           *)

\* Mutant: IER is written only after the controller has obeyed.
SetResetMode_MaskLast ==
  /\ \/ /\ mod' = "reset" /\ state' = "STOPPED" /\ ier' = FALSE
        /\ IF mod = "reset"
             THEN UNCHANGED <<ir, tx, rx, overrun>>
             ELSE ir' = {} /\ tx' = NoFrame /\ rx' = 0 /\ overrun' = FALSE
     \/ /\ ModeMayFail /\ mod = "normal"
        /\ UNCHANGED <<mod, state, ier, ir, tx, rx, overrun>>
  /\ UNCHANGED <<err, done, events>>

\* IER goes off first, then MOD_RM is written until the controller obeys.
SetResetMode ==
  /\ ier' = FALSE
  /\ \/ /\ mod' = "reset" /\ state' = "STOPPED"
        /\ IF mod = "reset"
             THEN UNCHANGED <<ir, tx, rx, overrun>>
             ELSE ir' = {} /\ tx' = NoFrame /\ rx' = 0 /\ overrun' = FALSE
     \/ /\ ModeMayFail /\ mod = "normal"
        /\ UNCHANGED <<mod, state, ir, tx, rx, overrun>>
  /\ UNCHANGED <<err, done, events>>

\* asm9260_start in three steps: a reset unless the device is known to be
\* stopped, MOD_RM cleared (the error counters were zeroed just before), and
\* only then the state and IER.
StartReset ==
  IF state # "STOPPED" THEN SetResetMode ELSE UNCHANGED <<chip, state>>

StartMode ==
  /\ err' = IF mod = "reset" THEN "active" ELSE err
  /\ \/ mod' = "normal"
     \/ ModeMayFail /\ mod' = mod
  /\ UNCHANGED <<ier, ir, tx, rx, overrun, done, events, state>>

StartIer ==
  /\ IF mod = "normal" THEN state' = "ACTIVE" /\ ier' = TRUE
                       ELSE UNCHANGED <<state, ier>>
  /\ UNCHANGED <<mod, ir, err, tx, rx, overrun, done, events>>

-----------------------------------------------------------------------------
(* asm9260_open and asm9260_close, called by the network core.             *)

Goes(from, to) == ProcessMayRun /\ kpc = from /\ kpc' = to

OpenReset ==
  /\ Goes("down", "prepared")
  /\ SetResetMode
  /\ UNCHANGED <<opened, irqOn, timer, raced, net, lost>>

\* open_candev and request_irq.
OpenRequest ==
  /\ Goes("prepared", "requested")
  /\ irqOn' = TRUE /\ carrier' = TRUE
  /\ UNCHANGED <<chip, state, opened, timer, raced, awake, echo, looped, lost>>

\* Either of them fails: close_candev cleans up and open returns an error.
OpenFails ==
  /\ Goes("prepared", "down")
  /\ UNCHANGED <<chip, state, opened, irqOn, timer, raced, net, lost>>

OpenStart ==
  /\ \/ Goes("requested", "reset") /\ StartReset
     \/ Goes("reset", "mode") /\ StartMode
     \/ Goes("mode", "started") /\ StartIer
  /\ UNCHANGED <<opened, irqOn, timer, raced, net, lost>>

OpenDone ==
  /\ Goes("started", "up")
  /\ opened' = TRUE /\ awake' = TRUE /\ lost' = {}
  /\ UNCHANGED <<chip, state, irqOn, timer, raced, carrier, echo, looped>>

\* The network core has stopped the transmit path before it calls close.
CloseStop ==
  /\ xpc = "idle" /\ Goes("up", "stopping")
  /\ awake' = FALSE /\ raced' = FALSE
  /\ UNCHANGED <<chip, state, opened, irqOn, timer, carrier, echo, looped, lost>>

CloseReset ==
  /\ Goes("stopping", "halted")
  /\ SetResetMode
  /\ UNCHANGED <<opened, irqOn, timer, raced, net, lost>>

\* free_irq, close_candev (which stops the timer and drops the echo), open_time.
CloseFree ==
  /\ Goes("halted", "down")
  /\ irqOn' = FALSE /\ timer' = FALSE /\ echo' = NoFrame /\ opened' = FALSE
  /\ UNCHANGED <<chip, state, raced, awake, carrier, looped, lost>>

OpenClose ==
  /\ \/ OpenReset \/ OpenRequest \/ OpenFails \/ OpenStart \/ OpenDone
     \/ CloseStop \/ CloseReset \/ CloseFree
  /\ UNCHANGED <<sent, txPackets, xpc, rpc, handler>>

-----------------------------------------------------------------------------
(* asm9260_start_xmit, called for an awake queue of a device that is up.   *)

\* Mutant: start_xmit does not stop the queue.
XmitStop_QueueLeftOn ==
  /\ ProcessMayRun /\ kpc = "up" /\ xpc = "idle"
  /\ awake /\ carrier /\ sent < MaxFrames
  /\ sent' = sent + 1
  /\ xpc' = "loaded"
  /\ UNCHANGED <<chip, net>>

XmitStop ==
  /\ ProcessMayRun /\ kpc = "up" /\ xpc = "idle"
  /\ awake /\ carrier /\ sent < MaxFrames
  /\ awake' = FALSE
  /\ sent' = sent + 1
  /\ xpc' = "loaded"
  /\ UNCHANGED <<chip, carrier, echo, looped>>

\* can_put_echo_skb throws the frame away when the slot is taken.
XmitEcho ==
  /\ ProcessMayRun /\ xpc = "loaded"
  /\ echo' = IF echo = NoFrame THEN sent ELSE echo
  /\ xpc' = "echoed"
  /\ UNCHANGED <<chip, awake, carrier, looped, sent>>

\* CMD_TR; a controller in reset mode ignores it.
XmitRequest ==
  /\ ProcessMayRun /\ xpc = "echoed"
  /\ tx' = IF mod = "normal" THEN sent ELSE tx
  /\ xpc' = "idle"
  /\ UNCHANGED <<mod, ier, ir, err, rx, overrun, done, events, net, sent>>

Xmit ==
  /\ XmitStop \/ XmitEcho \/ XmitRequest
  /\ UNCHANGED <<state, opened, irqOn, timer, txPackets, lost, raced, kpc, rpc, handler>>

-----------------------------------------------------------------------------
(* can_restart, when the timer fires, and asm9260_set_mode under it.       *)

RGoes(from, to) == SoftIrqMayRun /\ rpc = from /\ rpc' = to

\* can_restart_now, on request of an administrator, for a device in bus-off.
RestartNow ==
  /\ ProcessMayRun /\ xpc = "idle" /\ kpc = "up"
  /\ ~AutoRestart /\ state = "BUS_OFF"
  /\ timer' = TRUE
  /\ UNCHANGED <<chip, state, raced, net, rpc, lost>>

\* The echo is dropped; set_mode refuses a device without open_time.
RestartFires ==
  /\ timer /\ xpc = "idle"
  /\ RGoes("idle", IF opened THEN "flushed" ELSE "woken")
  /\ timer' = FALSE
  /\ echo' = NoFrame
  /\ raced' = (raced \/ kpc \in {"stopping", "halted"})
  /\ UNCHANGED <<chip, state, awake, carrier, looped, lost>>

RestartStart ==
  /\ \/ RGoes("flushed", "reset") /\ StartReset
     \/ RGoes("reset", "mode") /\ StartMode
     \/ RGoes("mode", "started") /\ StartIer
  /\ UNCHANGED <<timer, raced, net, lost>>

\* Mutant: set_mode starts the device and forgets the queue.
RestartWake_NoWake ==
  /\ RGoes("started", "woken")
  /\ lost' = {}
  /\ UNCHANGED <<chip, state, timer, raced, net>>

RestartWake ==
  /\ RGoes("started", "woken")
  /\ awake' = TRUE /\ lost' = {}
  /\ UNCHANGED <<chip, state, timer, raced, carrier, echo, looped>>

RestartDone ==
  /\ RGoes("woken", "idle")
  /\ carrier' = TRUE
  /\ UNCHANGED <<chip, state, timer, raced, awake, echo, looped, lost>>

Restart ==
  /\ RestartNow \/ RestartFires \/ RestartStart \/ RestartWake \/ RestartDone
  /\ UNCHANGED <<opened, irqOn, sent, txPackets, kpc, xpc, handler>>

-----------------------------------------------------------------------------
(* asm9260_interrupt.                                                      *)

\* On its own interrupt, or on a stray one that finds sources with IER off.
IrqEnter ==
  /\ ipc = "idle" /\ irqOn
  /\ Raised \/ (~ier /\ ir # {})
  /\ ipc' = "clear" /\ isrc' = ir
  /\ UNCHANGED <<chip, state, timer, txPackets, lost, net, n, status>>

\* REG_IR is zeroed by a write of its own: what was latched since the read
\* is gone.  With IER off the interrupt is left to somebody else.
IrqClear ==
  /\ ipc = "clear"
  /\ ir' = {} /\ lost' = lost \cup (ir \ isrc)
  /\ ipc' = IF ier THEN "pass" ELSE "idle"
  /\ n' = 0
  /\ UNCHANGED <<mod, ier, err, tx, rx, overrun, done, events,
                 state, timer, txPackets, net, isrc, status>>

\* Mutant: one pass too many.
NextPass_OneMore == IF n' <= MaxIrq THEN "pass" ELSE "idle"

\* The loop condition, tested after the pass that has just been counted.
NextPass == IF n' < MaxIrq THEN "pass" ELSE "idle"

AfterRx == IF isrc \cap ErrIrq # {} THEN "err" ELSE NextPass

\* Mutant: every interrupt is taken for a transmit interrupt.
IrqPass_AnySource ==
  /\ ipc = "pass"
  /\ n' = n + 1
  /\ status' = err
  /\ txPackets' = txPackets + 1
  /\ looped' = IF echo = NoFrame THEN looped ELSE Append(looped, echo)
  /\ echo' = NoFrame
  /\ awake' = TRUE
  /\ ipc' = IF "RI" \in isrc /\ rx > 0 THEN "rx" ELSE AfterRx
  /\ UNCHANGED <<chip, state, timer, lost, carrier, isrc>>

\* Mutant: the queue is woken but the echo stays in its slot.
IrqPass_EchoKept ==
  /\ ipc = "pass"
  /\ n' = n + 1
  /\ status' = err
  /\ IF "TI" \in isrc
       THEN /\ txPackets' = txPackets + 1
            /\ looped' = IF echo = NoFrame THEN looped ELSE Append(looped, echo)
            /\ awake' = TRUE
       ELSE UNCHANGED <<txPackets, looped, awake>>
  /\ ipc' = IF "RI" \in isrc /\ rx > 0 THEN "rx" ELSE AfterRx
  /\ UNCHANGED <<chip, state, timer, lost, echo, carrier, isrc>>

\* Mutant: the echo is taken but the queue is not woken.
IrqPass_NoWake ==
  /\ ipc = "pass"
  /\ n' = n + 1
  /\ status' = err
  /\ IF "TI" \in isrc
       THEN /\ txPackets' = txPackets + 1
            /\ looped' = IF echo = NoFrame THEN looped ELSE Append(looped, echo)
            /\ echo' = NoFrame
       ELSE UNCHANGED <<txPackets, looped, echo>>
  /\ ipc' = IF "RI" \in isrc /\ rx > 0 THEN "rx" ELSE AfterRx
  /\ UNCHANGED <<chip, state, timer, lost, carrier, isrc, awake>>

\* can_get_echo_skb(dev, 0) and netif_wake_queue for every pass that sees TI.
IrqPass ==
  /\ ipc = "pass"
  /\ n' = n + 1
  /\ status' = err
  /\ IF "TI" \in isrc
       THEN /\ txPackets' = txPackets + 1
            /\ looped' = IF echo = NoFrame THEN looped ELSE Append(looped, echo)
            /\ echo' = NoFrame
            /\ awake' = TRUE
       ELSE UNCHANGED <<txPackets, looped, echo, awake>>
  /\ ipc' = IF "RI" \in isrc /\ rx > 0 THEN "rx" ELSE AfterRx
  /\ UNCHANGED <<chip, state, timer, lost, carrier, isrc>>

\* Mutant: the status is not read again after a frame.
IrqRx_StaleStatus ==
  /\ ipc = "rx"
  /\ rx' \in {rx, IF rx > 0 THEN rx - 1 ELSE 0}
  /\ n' = n
  /\ UNCHANGED <<mod, ier, ir, err, tx, overrun, done, events,
                 state, timer, txPackets, lost, net, ipc, isrc, status>>

\* asm9260_rx: without memory for the frame the buffer is not released.
IrqRx ==
  /\ ipc = "rx"
  /\ \/ rx' = IF rx > 0 THEN rx - 1 ELSE 0
     \/ rx' = rx
  /\ status' = err
  /\ n' = n
  /\ ipc' = IF rx' > 0 THEN "rx" ELSE AfterRx
  /\ UNCHANGED <<mod, ier, ir, err, tx, overrun, done, events,
                 state, timer, txPackets, lost, net, isrc>>

\* The state asm9260_err computes: EI first, EPI overrides it.
Reported ==
  LET afterEI == IF "EI" \notin isrc THEN state
                 ELSE CASE status = "busoff" -> "BUS_OFF"
                        [] status = "active" -> "ACTIVE"
                        [] OTHER -> "WARNING"
  IN  IF "EPI" \notin isrc THEN afterEI
      ELSE IF status = "active" THEN "ACTIVE" ELSE "PASSIVE"

BusOffSeen == "EI" \in isrc /\ status = "busoff"

IrqErr ==
  /\ ipc = "err"
  /\ state' = Reported
  /\ overrun' = IF "DOI" \in isrc THEN FALSE ELSE overrun
  /\ carrier' = IF BusOffSeen THEN FALSE ELSE carrier
  /\ timer' = IF BusOffSeen /\ AutoRestart THEN TRUE ELSE timer
  /\ n' = n
  /\ ipc' = NextPass
  /\ UNCHANGED <<mod, ier, ir, err, tx, rx, done, events,
                 txPackets, lost, awake, echo, looped, isrc, status>>

\* No memory for the error frame: -ENOMEM, and the handler leaves the loop.
IrqErrNoMem ==
  /\ ipc = "err"
  /\ ipc' = "idle"
  /\ UNCHANGED <<chip, state, timer, txPackets, lost, net, isrc, n, status>>

Interrupt ==
  /\ IrqEnter \/ IrqClear \/ IrqPass \/ IrqRx \/ IrqErr \/ IrqErrNoMem
  /\ UNCHANGED <<opened, irqOn, sent, raced, kpc, xpc, rpc>>

-----------------------------------------------------------------------------

Next == Chip \/ OpenClose \/ Xmit \/ Restart \/ Interrupt

Spec == Init /\ [][Next]_vars

(* The CPU runs what is ready and the controller sends what it was given.  *)
(* Nothing forces the bus, a user or an administrator to act, nor memory   *)
(* for a received frame to be found: while the handler asks for it nothing *)
(* else runs that could free some.  A failing attempt changes nothing, so  *)
(* an attempt that fails for ever is a handler left in "rx".               *)
Fairness ==
  /\ WF_vars(Interrupt /\ rx' = rx)
  /\ WF_vars(Xmit /\ xpc # "idle")
  /\ WF_vars(OpenClose /\ kpc \notin {"down", "up"})
  /\ WF_vars(Restart /\ (rpc # "idle" \/ timer))
  /\ WF_vars(Chip /\ ChipSends)

FairSpec == Spec /\ Fairness

-----------------------------------------------------------------------------
TypeOK ==
  /\ mod \in {"reset", "normal"} /\ ier \in BOOLEAN
  /\ ir \in SUBSET Irq /\ err \in Levels
  /\ tx \in Frames \cup {NoFrame} /\ rx \in 0 .. FifoDepth
  /\ overrun \in BOOLEAN /\ done \in SUBSET Frames /\ events \in 0 .. MaxEvents
  /\ state \in States /\ opened \in BOOLEAN /\ irqOn \in BOOLEAN
  /\ timer \in BOOLEAN /\ raced \in BOOLEAN
  /\ sent \in 0 .. MaxFrames /\ txPackets \in Nat /\ lost \in SUBSET Irq
  /\ awake \in BOOLEAN /\ carrier \in BOOLEAN
  /\ echo \in Frames \cup {NoFrame} /\ looped \in Seq(Frames)
  /\ kpc \in {"down", "prepared", "requested", "reset", "mode", "started",
              "up", "stopping", "halted"}
  /\ xpc \in {"idle", "loaded", "echoed"}
  /\ rpc \in {"idle", "flushed", "reset", "mode", "started", "woken"}
  /\ ipc \in {"idle", "clear", "pass", "rx", "err"}
  /\ isrc \in SUBSET Irq /\ n \in 0 .. MaxIrq /\ status \in Levels

(* A frame the controller is sending is the frame the echo slot holds: the *)
(* queue stays stopped from start_xmit to its transmit interrupt, and what *)
(* is thrown away by a restart or a close is thrown away on both sides.    *)
EchoIsInFlight == tx # NoFrame /\ kpc # "down" => echo = tx

(* start_xmit never finds the echo slot taken, in which case the CAN core  *)
(* complains and drops the frame.                                          *)
SlotFreeForXmit == xpc = "loaded" => echo = NoFrame

(* A frame is looped back to the local sockets only once it has been on    *)
(* the bus, at most once, and in the order the frames were sent.           *)
LoopedAfterSent ==
  /\ \A i \in 1 .. Len(looped) : looped[i] \in done
  /\ \A i, j \in 1 .. Len(looped) : i < j => looped[i] < looped[j]

(* Refinement: the echo slot is the frame under way.  Every step of the    *)
(* driver and its controller is a step of LocalEcho or leaves it alone.    *)
Echo == INSTANCE LocalEcho WITH slot <- echo, aired <- done

EchoSpec == Echo!Spec

(* When the queue of a running device stays stopped and nothing is in the  *)
(* making, the reason is a frame on its way, a transmit interrupt that the *)
(* handler's clearing of IR wiped out, or a controller that left normal    *)
(* mode.                                                                   *)
StopHasCause ==
  kpc = "up" /\ ~awake /\ xpc = "idle" /\ rpc = "idle" /\ ipc = "idle" =>
    \/ tx # NoFrame
    \/ "TI" \in ir
    \/ "TI" \in lost
    \/ mod = "reset"

(* A closed device is silent: interrupts off whatever the controller does, *)
(* and in reset mode unless it refused; the exception is a restart timer   *)
(* that fired between the reset and the release of the timer.              *)
ClosedIsSilent ==
  kpc = "down" /\ ~raced =>
    /\ ~ier /\ ~timer /\ ~irqOn /\ echo = NoFrame
    /\ mod = "reset" \/ ModeMayFail

(* Every transmitted frame is counted at most MaxIrq times.                *)
CountBounded == txPackets <= MaxIrq * Cardinality(done)

(* The handler stays in its inner loop, which has no bound of its own,     *)
(* with a frame it cannot release for want of memory.                      *)
SpinsForEver == <>[](ipc = "rx" /\ rx > 0)

(* A transmission that ended wakes the queue again, unless its interrupt   *)
(* is wiped out, the device goes down, the controller leaves the bus or    *)
(* the handler spins for ever.                                             *)
QueueWakes ==
  \/ SpinsForEver
  \/ (~awake /\ kpc = "up") ~>
        (awake \/ kpc # "up" \/ "TI" \in lost \/ mod = "reset")

(* The interrupt handler returns each time it is entered, and only the     *)
(* inner loop can keep it: with a frame in the buffer and no memory for it *)
(* asm9260_rx returns without releasing the buffer, again and again.       *)
HandlerReturns == SpinsForEver \/ []<>(ipc = "idle")

-----------------------------------------------------------------------------
(* What the comments of the driver say and the code does not do.           *)

(* "max. number of interrupts handled in ISR" (asm9260.h:10): every pass   *)
(* handles an interrupt of its own, so a frame is counted once.            *)
TxCountedOnce == txPackets <= Cardinality(done)

(* "enable all interrupts" (asm9260.c:105): the controller's bus-off is    *)
(* reported to the driver, which then enters BUS_OFF.                      *)
BusOffReported ==
  \/ SpinsForEver
  \/ (err = "busoff" /\ kpc = "up") ~> (state = "BUS_OFF" \/ kpc # "up" \/ err # "busoff")

=============================================================================
