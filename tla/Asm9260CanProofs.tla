-------------------------- MODULE Asm9260CanProofs --------------------------
(***************************************************************************)
(* Proofs about Asm9260Can, for any number of frames, bus events, passes   *)
(* of the interrupt loop and places in the receive buffer.                 *)
(*                                                                         *)
(* EchoIsInFlight rests on a chain of facts none of which speaks of an     *)
(* echo: a restart is armed only by bus-off, bus-off puts the controller   *)
(* into reset mode, only a start leaves that mode, and a start is under    *)
(* way only when no timer is armed.  Controls is about who may be where,   *)
(* Modes about that chain, Flight about the frame and its echo, Order      *)
(* about the frames looped back.  The chain breaks when the controller     *)
(* ignores the mode register, so the theorems about frames assume          *)
(* ~ModeMayFail; those about open, close and the queue do not.             *)
(***************************************************************************)
EXTENDS Asm9260Can, FiniteSetTheorems, TLAPS

-----------------------------------------------------------------------------
(* TypeOK by kinds of values, with the two bounds that make it inductive.  *)

Flags ==
  /\ ier \in BOOLEAN /\ overrun \in BOOLEAN /\ opened \in BOOLEAN /\ irqOn \in BOOLEAN
  /\ timer \in BOOLEAN /\ raced \in BOOLEAN /\ awake \in BOOLEAN /\ carrier \in BOOLEAN

Places ==
  /\ mod \in {"reset", "normal"} /\ err \in Levels /\ state \in States
  /\ kpc \in {"down", "prepared", "requested", "reset", "mode", "started",
              "up", "stopping", "halted"}
  /\ xpc \in {"idle", "loaded", "echoed"}
  /\ rpc \in {"idle", "flushed", "reset", "mode", "started", "woken"}
  /\ ipc \in {"idle", "clear", "pass", "rx", "err"}
  /\ status \in Levels

Numbers ==
  /\ tx \in Frames \cup {NoFrame} /\ rx \in 0 .. FifoDepth /\ events \in 0 .. MaxEvents
  /\ sent \in 0 .. MaxFrames /\ txPackets \in Nat /\ n \in 0 .. MaxIrq
  /\ echo \in Frames \cup {NoFrame}
  /\ ipc = "pass" => n < MaxIrq
  /\ xpc # "idle" => sent > 0

Sets ==
  /\ ir \in SUBSET Irq /\ isrc \in SUBSET Irq /\ lost \in SUBSET Irq
  /\ done \in SUBSET Frames

Queue == looped \in Seq(Frames)

TInv == Flags /\ Places /\ Numbers /\ Sets /\ Queue

-----------------------------------------------------------------------------
(* The strengthenings, from who may be where to the order of the frames.   *)

Opening == {"down", "prepared", "requested", "reset", "mode"}
Running == {"up", "stopping", "halted"}

Controls ==
  /\ irqOn <=> kpc \notin {"down", "prepared"}
  /\ opened <=> kpc \in Running
  /\ ipc # "idle" => irqOn
  /\ ipc \in {"pass", "rx", "err"} => ier
  /\ kpc \in Opening => ~timer /\ rpc = "idle"
  /\ kpc \in Opening \cup {"started"} => echo = NoFrame
  /\ kpc \in Opening \ {"down"} => ~ier
  /\ xpc # "idle" => kpc = "up" /\ rpc = "idle"

Closing ==
  /\ kpc = "prepared" => mod = "reset" \/ ModeMayFail
  /\ kpc \in {"stopping", "halted"} /\ rpc # "idle" => raced
  /\ kpc \in {"halted", "down"} /\ ~raced => ~ier /\ (mod = "reset" \/ ModeMayFail)

CInv == TInv /\ Controls /\ Closing

(* A restart on its way wakes the queue, a handler with a transmit         *)
(* interrupt in hand does.                                                 *)
Stops ==
  /\ mod = "normal" /\ kpc \in {"started", "up", "stopping"}
       /\ rpc \in {"idle", "started", "woken"} => ier
  /\ kpc = "up" /\ ~awake /\ xpc = "idle" /\ rpc \in {"idle", "woken"} =>
       \/ tx # NoFrame
       \/ "TI" \in ir
       \/ "TI" \in lost
       \/ mod = "reset"
       \/ ipc \in {"clear", "pass"} /\ "TI" \in isrc

Modes ==
  /\ err = "busoff" => mod = "reset"
  /\ ipc \in {"rx", "err"} /\ status = "busoff" => mod = "reset"
  /\ state = "BUS_OFF" => mod = "reset"
  /\ state = "STOPPED" => ~ier
  /\ timer => mod = "reset"
  /\ kpc \in Opening \ {"down"} => state = "STOPPED"
  /\ kpc \in Opening \ {"down", "mode"} => mod = "reset"
  /\ rpc \in {"flushed", "reset"} => mod = "reset" /\ ~(ier /\ ir \cap Enabled # {})
  /\ rpc \in {"flushed", "reset", "mode"} =>
       ~timer /\ (ipc = "idle" \/ (ipc = "clear" /\ ~ier))
  /\ rpc \in {"reset", "mode"} => state = "STOPPED"
  /\ mod = "normal" /\ kpc # "mode" /\ rpc # "mode" => ier

\* A transmit interrupt is latched, or in the hands of the handler.
Coming == "TI" \in ir \/ (ipc # "idle" /\ "TI" \in isrc)

Flight ==
  /\ tx # NoFrame =>
       /\ mod = "normal" /\ rpc = "idle" /\ kpc \in {"up", "stopping"}
       /\ xpc = "idle" /\ ~awake /\ echo = tx /\ ~Coming
  /\ "TI" \in ir => ier /\ irqOn
  /\ xpc # "idle" => ~awake /\ ~Coming
  /\ ipc \in {"pass", "rx", "err"} /\ "TI" \in isrc => "TI" \notin ir
  /\ xpc = "loaded" => echo = NoFrame
  /\ xpc = "echoed" => echo = sent
  /\ echo # NoFrame => ~awake
  /\ rpc # "idle" => echo = NoFrame

FInv == CInv /\ Modes /\ Flight

Order ==
  /\ LoopedAfterSent
  /\ echo # NoFrame => echo = sent
  /\ Coming /\ echo # NoFrame => echo \in done
  /\ \A i \in 1 .. Len(looped) :
       looped[i] <= sent /\ (xpc # "idle" \/ echo # NoFrame => looped[i] < sent)

(* A frame on its way has not been sent before, and the passes still due   *)
(* for a transmit interrupt are paid for by the frame that raised it.      *)
Fresh ==
  /\ \A f \in done : f <= sent
  /\ xpc # "idle" => sent \notin done
  /\ tx # NoFrame => tx \notin done

Due ==
  IF ipc # "idle" /\ "TI" \in isrc THEN IF ipc = "clear" THEN MaxIrq ELSE MaxIrq - n
  ELSE IF "TI" \in ir THEN MaxIrq ELSE 0

Earned == MaxIrq * Cardinality(done)
Paid == txPackets + Due <= Earned

OInv == FInv /\ Order /\ Fresh /\ Paid

\* Each kind of value in turn.
LEMMA FlagsStep == Flags /\ [Next]_vars => Flags'
<1> SUFFICES ASSUME Flags, [Next]_vars PROVE Flags'
  OBVIOUS
<1> USE DEF Flags, chip, net, handler
<1>1. CASE Chip
  BY <1>1 DEF Chip, ChipSends, ChipReceives, ChipLosesArbitration,
     ChipErrorLevel, ChipBusOff, BusEvent, Latch
<1>2. CASE OpenClose
  BY <1>2 DEF OpenClose, OpenReset, OpenRequest, OpenFails, OpenStart,
     OpenDone, CloseStop, CloseReset, CloseFree, Goes, SetResetMode,
     StartReset, StartMode, StartIer
<1>3. CASE Xmit
  BY <1>3 DEF Xmit, XmitStop, XmitEcho, XmitRequest
<1>4. CASE Restart
  BY <1>4 DEF Restart, RestartNow, RestartFires, RestartStart,
     RestartWake, RestartDone, RGoes, SetResetMode, StartReset, StartMode,
     StartIer
<1>5. CASE Interrupt
  BY <1>5 DEF Interrupt, IrqEnter, IrqClear, IrqPass, IrqRx, IrqErr,
     IrqErrNoMem, AfterRx, NextPass, ErrIrq
<1>6. CASE UNCHANGED vars
  BY <1>6 DEF vars
<1> QED  BY <1>1, <1>2, <1>3, <1>4, <1>5, <1>6 DEF Next

LEMMA PlacesStep == Places /\ [Next]_vars => Places'
<1> SUFFICES ASSUME Places, [Next]_vars PROVE Places'
  OBVIOUS
<1> USE DEF Places, States, Levels, Reported, chip, net, handler
<1>1. CASE Chip
  BY <1>1 DEF Chip, ChipSends, ChipReceives, ChipLosesArbitration,
     ChipErrorLevel, ChipBusOff, BusEvent, Latch
<1>2. CASE OpenClose
  BY <1>2 DEF OpenClose, OpenReset, OpenRequest, OpenFails, OpenStart,
     OpenDone, CloseStop, CloseReset, CloseFree, Goes, SetResetMode,
     StartReset, StartMode, StartIer
<1>3. CASE Xmit
  BY <1>3 DEF Xmit, XmitStop, XmitEcho, XmitRequest
<1>4. CASE Restart
  BY <1>4 DEF Restart, RestartNow, RestartFires, RestartStart,
     RestartWake, RestartDone, RGoes, SetResetMode, StartReset, StartMode,
     StartIer
<1>5. CASE Interrupt
  <2> USE DEF Interrupt, AfterRx, NextPass, ErrIrq
  <2>1. CASE IrqEnter  BY <1>5, <2>1 DEF IrqEnter
  <2>2. CASE IrqClear  BY <1>5, <2>2 DEF IrqClear
  <2>3. CASE IrqPass  BY <1>5, <2>3 DEF IrqPass
  <2>4. CASE IrqRx  BY <1>5, <2>4 DEF IrqRx
  <2>5. CASE IrqErr  BY <1>5, <2>5 DEF IrqErr
  <2>6. CASE IrqErrNoMem  BY <1>5, <2>6 DEF IrqErrNoMem
  <2> QED  BY <1>5, <2>1, <2>2, <2>3, <2>4, <2>5, <2>6
<1>6. CASE UNCHANGED vars
  BY <1>6 DEF vars
<1> QED  BY <1>1, <1>2, <1>3, <1>4, <1>5, <1>6 DEF Next

LEMMA NumbersStep == Numbers /\ [Next]_vars => Numbers'
<1> SUFFICES ASSUME Numbers, [Next]_vars PROVE Numbers'
  OBVIOUS
<1> USE ConstantsOK DEF Numbers, Frames, NoFrame, chip, net, handler
<1>1. CASE Chip
  BY <1>1 DEF Chip, ChipSends, ChipReceives, ChipLosesArbitration,
     ChipErrorLevel, ChipBusOff, BusEvent, Latch
<1>2. CASE OpenClose
  BY <1>2 DEF OpenClose, OpenReset, OpenRequest, OpenFails, OpenStart,
     OpenDone, CloseStop, CloseReset, CloseFree, Goes, SetResetMode,
     StartReset, StartMode, StartIer
<1>3. CASE Xmit
  BY <1>3 DEF Xmit, XmitStop, XmitEcho, XmitRequest
<1>4. CASE Restart
  BY <1>4 DEF Restart, RestartNow, RestartFires, RestartStart,
     RestartWake, RestartDone, RGoes, SetResetMode, StartReset, StartMode,
     StartIer
<1>5. CASE Interrupt
  <2> USE DEF Interrupt, AfterRx, NextPass, ErrIrq
  <2>1. CASE IrqEnter  BY <1>5, <2>1 DEF IrqEnter
  <2>2. CASE IrqClear  BY <1>5, <2>2 DEF IrqClear
  <2>3. CASE IrqPass  BY <1>5, <2>3 DEF IrqPass
  <2>4. CASE IrqRx  BY <1>5, <2>4 DEF IrqRx
  <2>5. CASE IrqErr  BY <1>5, <2>5 DEF IrqErr
  <2>6. CASE IrqErrNoMem  BY <1>5, <2>6 DEF IrqErrNoMem
  <2> QED  BY <1>5, <2>1, <2>2, <2>3, <2>4, <2>5, <2>6
<1>6. CASE UNCHANGED vars
  BY <1>6 DEF vars
<1> QED  BY <1>1, <1>2, <1>3, <1>4, <1>5, <1>6 DEF Next

LEMMA SetsStep == Numbers /\ Sets /\ [Next]_vars => Sets'
<1> SUFFICES ASSUME Numbers, Sets, [Next]_vars PROVE Sets'
  OBVIOUS
<1> USE DEF Numbers, Sets, Irq, Enabled, Frames, NoFrame, chip, net, handler
<1>1. CASE Chip
  BY <1>1 DEF Chip, ChipSends, ChipReceives, ChipLosesArbitration,
     ChipErrorLevel, ChipBusOff, BusEvent, Latch
<1>2. CASE OpenClose
  BY <1>2 DEF OpenClose, OpenReset, OpenRequest, OpenFails, OpenStart,
     OpenDone, CloseStop, CloseReset, CloseFree, Goes, SetResetMode,
     StartReset, StartMode, StartIer
<1>3. CASE Xmit
  BY <1>3 DEF Xmit, XmitStop, XmitEcho, XmitRequest
<1>4. CASE Restart
  BY <1>4 DEF Restart, RestartNow, RestartFires, RestartStart,
     RestartWake, RestartDone, RGoes, SetResetMode, StartReset, StartMode,
     StartIer
<1>5. CASE Interrupt
  BY <1>5 DEF Interrupt, IrqEnter, IrqClear, IrqPass, IrqRx, IrqErr,
     IrqErrNoMem, AfterRx, NextPass, ErrIrq
<1>6. CASE UNCHANGED vars
  BY <1>6 DEF vars
<1> QED  BY <1>1, <1>2, <1>3, <1>4, <1>5, <1>6 DEF Next

LEMMA QueueStep == Numbers /\ Queue /\ [Next]_vars => Queue'
<1> SUFFICES ASSUME Numbers, Queue, [Next]_vars PROVE Queue'
  OBVIOUS
<1> USE DEF Queue, chip, net, handler
<1>1. CASE Chip
  BY <1>1 DEF Chip, ChipSends, ChipReceives, ChipLosesArbitration,
     ChipErrorLevel, ChipBusOff, BusEvent, Latch
<1>2. CASE OpenClose
  BY <1>2 DEF OpenClose, OpenReset, OpenRequest, OpenFails, OpenStart,
     OpenDone, CloseStop, CloseReset, CloseFree, Goes, SetResetMode,
     StartReset, StartMode, StartIer
<1>3. CASE Xmit
  BY <1>3 DEF Xmit, XmitStop, XmitEcho, XmitRequest
<1>4. CASE Restart
  BY <1>4 DEF Restart, RestartNow, RestartFires, RestartStart,
     RestartWake, RestartDone, RGoes, SetResetMode, StartReset, StartMode,
     StartIer
<1>5. CASE Interrupt
  <2>1. CASE ipc = "pass" /\ "TI" \in isrc /\ echo # NoFrame
    <3>1. echo \in Frames  BY <2>1 DEF Numbers
    <3>2. looped' = Append(looped, echo) \/ looped' = looped
      BY <1>5, <2>1 DEF Interrupt, IrqEnter, IrqClear, IrqPass, IrqRx, IrqErr, IrqErrNoMem
    <3> QED  BY <3>1, <3>2
  <2>2. CASE ~(ipc = "pass" /\ "TI" \in isrc /\ echo # NoFrame)
    <3>1. looped' = looped
      BY <1>5, <2>2 DEF Interrupt, IrqEnter, IrqClear, IrqPass, IrqRx, IrqErr, IrqErrNoMem
    <3> QED  BY <3>1
  <2> QED  BY <2>1, <2>2
<1>6. CASE UNCHANGED vars
  BY <1>6 DEF vars
<1> QED  BY <1>1, <1>2, <1>3, <1>4, <1>5, <1>6 DEF Next

\* Who may be where: open, close, start_xmit, restart and handler.
LEMMA ControlsStep == TInv /\ Controls /\ [Next]_vars => Controls'
<1> SUFFICES ASSUME TInv, Controls, [Next]_vars PROVE Controls'
  OBVIOUS
<1> USE DEF TInv, Flags, Places, Numbers, Controls, Opening, Running, NoFrame,
       Raised, SoftIrqMayRun, ProcessMayRun, chip, net, handler
<1>1. CASE Chip
  <2> USE DEF Chip, BusEvent, Latch
  <2>1. CASE ChipSends  BY <1>1, <2>1 DEF ChipSends
  <2>2. CASE ChipReceives  BY <1>1, <2>2 DEF ChipReceives
  <2>3. CASE ChipLosesArbitration  BY <1>1, <2>3 DEF ChipLosesArbitration
  <2>4. CASE ChipErrorLevel  BY <1>1, <2>4 DEF ChipErrorLevel
  <2>5. CASE ChipBusOff  BY <1>1, <2>5 DEF ChipBusOff
  <2> QED  BY <1>1, <2>1, <2>2, <2>3, <2>4, <2>5
<1>2. CASE OpenClose
  <2> USE DEF OpenClose, Goes, SetResetMode, StartReset, StartMode, StartIer
  <2>1. CASE OpenReset  BY <1>2, <2>1 DEF OpenReset
  <2>2. CASE OpenRequest  BY <1>2, <2>2 DEF OpenRequest
  <2>3. CASE OpenFails  BY <1>2, <2>3 DEF OpenFails
  <2>4. CASE OpenStart  BY <1>2, <2>4 DEF OpenStart
  <2>5. CASE OpenDone  BY <1>2, <2>5 DEF OpenDone
  <2>6. CASE CloseStop  BY <1>2, <2>6 DEF CloseStop
  <2>7. CASE CloseReset  BY <1>2, <2>7 DEF CloseReset
  <2>8. CASE CloseFree  BY <1>2, <2>8 DEF CloseFree
  <2> QED  BY <1>2, <2>1, <2>2, <2>3, <2>4, <2>5, <2>6, <2>7, <2>8
<1>3. CASE Xmit
  <2> USE DEF Xmit
  <2>1. CASE XmitStop  BY <1>3, <2>1 DEF XmitStop
  <2>2. CASE XmitEcho  BY <1>3, <2>2 DEF XmitEcho
  <2>3. CASE XmitRequest  BY <1>3, <2>3 DEF XmitRequest
  <2> QED  BY <1>3, <2>1, <2>2, <2>3
<1>4. CASE Restart
  <2> USE DEF Restart, RGoes, SetResetMode, StartReset, StartMode, StartIer
  <2>1. CASE RestartNow  BY <1>4, <2>1 DEF RestartNow
  <2>2. CASE RestartFires  BY <1>4, <2>2 DEF RestartFires
  <2>3. CASE RestartStart  BY <1>4, <2>3 DEF RestartStart
  <2>4. CASE RestartWake  BY <1>4, <2>4 DEF RestartWake
  <2>5. CASE RestartDone  BY <1>4, <2>5 DEF RestartDone
  <2> QED  BY <1>4, <2>1, <2>2, <2>3, <2>4, <2>5
<1>5. CASE Interrupt
  <2> USE DEF Interrupt, AfterRx, NextPass, ErrIrq
  <2>1. CASE IrqEnter  BY <1>5, <2>1 DEF IrqEnter
  <2>2. CASE IrqClear  BY <1>5, <2>2 DEF IrqClear
  <2>3. CASE IrqPass  BY <1>5, <2>3 DEF IrqPass
  <2>4. CASE IrqRx  BY <1>5, <2>4 DEF IrqRx
  <2>5. CASE IrqErr  BY <1>5, <2>5 DEF IrqErr
  <2>6. CASE IrqErrNoMem  BY <1>5, <2>6 DEF IrqErrNoMem
  <2> QED  BY <1>5, <2>1, <2>2, <2>3, <2>4, <2>5, <2>6
<1>6. CASE UNCHANGED vars
  BY <1>6 DEF vars
<1> QED  BY <1>1, <1>2, <1>3, <1>4, <1>5, <1>6 DEF Next

\* close against the restart timer.
LEMMA ClosingStep == CInv /\ [Next]_vars => Closing'
<1> SUFFICES ASSUME CInv, [Next]_vars PROVE Closing'
  OBVIOUS
<1> USE DEF CInv, TInv, Flags, Places, Controls, Closing, Opening, Raised,
       SoftIrqMayRun, ProcessMayRun, chip, net, handler
<1>1. CASE Chip
  <2> USE DEF Chip, BusEvent, Latch
  <2>1. CASE ChipSends  BY <1>1, <2>1 DEF ChipSends
  <2>2. CASE ChipReceives  BY <1>1, <2>2 DEF ChipReceives
  <2>3. CASE ChipLosesArbitration  BY <1>1, <2>3 DEF ChipLosesArbitration
  <2>4. CASE ChipErrorLevel  BY <1>1, <2>4 DEF ChipErrorLevel
  <2>5. CASE ChipBusOff  BY <1>1, <2>5 DEF ChipBusOff
  <2> QED  BY <1>1, <2>1, <2>2, <2>3, <2>4, <2>5
<1>2. CASE OpenClose
  <2> USE DEF OpenClose, Goes, SetResetMode, StartReset, StartMode, StartIer
  <2>1. CASE OpenReset  BY <1>2, <2>1 DEF OpenReset
  <2>2. CASE OpenRequest  BY <1>2, <2>2 DEF OpenRequest
  <2>3. CASE OpenFails  BY <1>2, <2>3 DEF OpenFails
  <2>4. CASE OpenStart  BY <1>2, <2>4 DEF OpenStart
  <2>5. CASE OpenDone  BY <1>2, <2>5 DEF OpenDone
  <2>6. CASE CloseStop  BY <1>2, <2>6 DEF CloseStop
  <2>7. CASE CloseReset  BY <1>2, <2>7 DEF CloseReset
  <2>8. CASE CloseFree  BY <1>2, <2>8 DEF CloseFree
  <2> QED  BY <1>2, <2>1, <2>2, <2>3, <2>4, <2>5, <2>6, <2>7, <2>8
<1>3. CASE Xmit
  <2> USE DEF Xmit
  <2>1. CASE XmitStop  BY <1>3, <2>1 DEF XmitStop
  <2>2. CASE XmitEcho  BY <1>3, <2>2 DEF XmitEcho
  <2>3. CASE XmitRequest  BY <1>3, <2>3 DEF XmitRequest
  <2> QED  BY <1>3, <2>1, <2>2, <2>3
<1>4. CASE Restart
  <2> USE DEF Restart, RGoes, SetResetMode, StartReset, StartMode, StartIer
  <2>1. CASE RestartNow  BY <1>4, <2>1 DEF RestartNow
  <2>2. CASE RestartFires  BY <1>4, <2>2 DEF RestartFires
  <2>3. CASE RestartStart  BY <1>4, <2>3 DEF RestartStart
  <2>4. CASE RestartWake  BY <1>4, <2>4 DEF RestartWake
  <2>5. CASE RestartDone  BY <1>4, <2>5 DEF RestartDone
  <2> QED  BY <1>4, <2>1, <2>2, <2>3, <2>4, <2>5
<1>5. CASE Interrupt
  <2> USE DEF Interrupt, AfterRx, NextPass, ErrIrq
  <2>1. CASE IrqEnter  BY <1>5, <2>1 DEF IrqEnter
  <2>2. CASE IrqClear  BY <1>5, <2>2 DEF IrqClear
  <2>3. CASE IrqPass  BY <1>5, <2>3 DEF IrqPass
  <2>4. CASE IrqRx  BY <1>5, <2>4 DEF IrqRx
  <2>5. CASE IrqErr  BY <1>5, <2>5 DEF IrqErr
  <2>6. CASE IrqErrNoMem  BY <1>5, <2>6 DEF IrqErrNoMem
  <2> QED  BY <1>5, <2>1, <2>2, <2>3, <2>4, <2>5, <2>6
<1>6. CASE UNCHANGED vars
  BY <1>6 DEF vars
<1> QED  BY <1>1, <1>2, <1>3, <1>4, <1>5, <1>6 DEF Next

\* A queue that stays stopped.
LEMMA StopsStep == CInv /\ Stops /\ [Next]_vars => Stops'
<1> SUFFICES ASSUME CInv, Stops, [Next]_vars PROVE Stops'
  OBVIOUS
<1> USE DEF CInv, TInv, Flags, Places, Numbers, Controls, Stops, Opening,
       Running, NoFrame, Enabled, Raised, SoftIrqMayRun, ProcessMayRun, chip,
       net, handler
<1>1. CASE Chip
  <2> USE DEF Chip, BusEvent, Latch
  <2>1. CASE ChipSends  BY <1>1, <2>1 DEF ChipSends
  <2>2. CASE ChipReceives  BY <1>1, <2>2 DEF ChipReceives
  <2>3. CASE ChipLosesArbitration  BY <1>1, <2>3 DEF ChipLosesArbitration
  <2>4. CASE ChipErrorLevel  BY <1>1, <2>4 DEF ChipErrorLevel
  <2>5. CASE ChipBusOff  BY <1>1, <2>5 DEF ChipBusOff
  <2> QED  BY <1>1, <2>1, <2>2, <2>3, <2>4, <2>5
<1>2. CASE OpenClose
  <2> USE DEF OpenClose, Goes, SetResetMode, StartReset, StartMode, StartIer
  <2>1. CASE OpenReset  BY <1>2, <2>1 DEF OpenReset
  <2>2. CASE OpenRequest  BY <1>2, <2>2 DEF OpenRequest
  <2>3. CASE OpenFails  BY <1>2, <2>3 DEF OpenFails
  <2>4. CASE OpenStart  BY <1>2, <2>4 DEF OpenStart
  <2>5. CASE OpenDone  BY <1>2, <2>5 DEF OpenDone
  <2>6. CASE CloseStop  BY <1>2, <2>6 DEF CloseStop
  <2>7. CASE CloseReset  BY <1>2, <2>7 DEF CloseReset
  <2>8. CASE CloseFree  BY <1>2, <2>8 DEF CloseFree
  <2> QED  BY <1>2, <2>1, <2>2, <2>3, <2>4, <2>5, <2>6, <2>7, <2>8
<1>3. CASE Xmit
  <2> USE DEF Xmit
  <2>1. CASE XmitStop  BY <1>3, <2>1 DEF XmitStop
  <2>2. CASE XmitEcho  BY <1>3, <2>2 DEF XmitEcho
  <2>3. CASE XmitRequest  BY <1>3, <2>3 DEF XmitRequest
  <2> QED  BY <1>3, <2>1, <2>2, <2>3
<1>4. CASE Restart
  <2> USE DEF Restart, RGoes, SetResetMode, StartReset, StartMode, StartIer
  <2>1. CASE RestartNow  BY <1>4, <2>1 DEF RestartNow
  <2>2. CASE RestartFires  BY <1>4, <2>2 DEF RestartFires
  <2>3. CASE RestartStart  BY <1>4, <2>3 DEF RestartStart
  <2>4. CASE RestartWake  BY <1>4, <2>4 DEF RestartWake
  <2>5. CASE RestartDone  BY <1>4, <2>5 DEF RestartDone
  <2> QED  BY <1>4, <2>1, <2>2, <2>3, <2>4, <2>5
<1>5. CASE Interrupt
  <2> USE DEF Interrupt, AfterRx, NextPass, ErrIrq
  <2>1. CASE IrqEnter  BY <1>5, <2>1 DEF IrqEnter
  <2>2. CASE IrqClear  BY <1>5, <2>2 DEF IrqClear
  <2>3. CASE IrqPass  BY <1>5, <2>3 DEF IrqPass
  <2>4. CASE IrqRx  BY <1>5, <2>4 DEF IrqRx
  <2>5. CASE IrqErr  BY <1>5, <2>5 DEF IrqErr
  <2>6. CASE IrqErrNoMem  BY <1>5, <2>6 DEF IrqErrNoMem
  <2> QED  BY <1>5, <2>1, <2>2, <2>3, <2>4, <2>5, <2>6
<1>6. CASE UNCHANGED vars
  BY <1>6 DEF vars
<1> QED  BY <1>1, <1>2, <1>3, <1>4, <1>5, <1>6 DEF Next

\* The chain from bus-off to the next start.
LEMMA ModesStep == ~ModeMayFail /\ CInv /\ Modes /\ [Next]_vars => Modes'
<1> SUFFICES ASSUME ~ModeMayFail, CInv, Modes, [Next]_vars PROVE Modes'
  OBVIOUS
<1> USE DEF CInv, TInv, Flags, Places, Controls, Modes, Opening, Reported,
       BusOffSeen, Raised, SoftIrqMayRun, ProcessMayRun, chip, net, handler
<1>1. CASE Chip
  <2> USE DEF Chip, BusEvent, Latch
  <2>1. CASE ChipSends  BY <1>1, <2>1 DEF ChipSends
  <2>2. CASE ChipReceives  BY <1>1, <2>2 DEF ChipReceives
  <2>3. CASE ChipLosesArbitration  BY <1>1, <2>3 DEF ChipLosesArbitration
  <2>4. CASE ChipErrorLevel  BY <1>1, <2>4 DEF ChipErrorLevel
  <2>5. CASE ChipBusOff  BY <1>1, <2>5 DEF ChipBusOff
  <2> QED  BY <1>1, <2>1, <2>2, <2>3, <2>4, <2>5
<1>2. CASE OpenClose
  <2> USE DEF OpenClose, Goes, SetResetMode, StartReset, StartMode, StartIer
  <2>1. CASE OpenReset  BY <1>2, <2>1 DEF OpenReset
  <2>2. CASE OpenRequest  BY <1>2, <2>2 DEF OpenRequest
  <2>3. CASE OpenFails  BY <1>2, <2>3 DEF OpenFails
  <2>4. CASE OpenStart  BY <1>2, <2>4 DEF OpenStart
  <2>5. CASE OpenDone  BY <1>2, <2>5 DEF OpenDone
  <2>6. CASE CloseStop  BY <1>2, <2>6 DEF CloseStop
  <2>7. CASE CloseReset  BY <1>2, <2>7 DEF CloseReset
  <2>8. CASE CloseFree  BY <1>2, <2>8 DEF CloseFree
  <2> QED  BY <1>2, <2>1, <2>2, <2>3, <2>4, <2>5, <2>6, <2>7, <2>8
<1>3. CASE Xmit
  <2> USE DEF Xmit
  <2>1. CASE XmitStop  BY <1>3, <2>1 DEF XmitStop
  <2>2. CASE XmitEcho  BY <1>3, <2>2 DEF XmitEcho
  <2>3. CASE XmitRequest  BY <1>3, <2>3 DEF XmitRequest
  <2> QED  BY <1>3, <2>1, <2>2, <2>3
<1>4. CASE Restart
  <2> USE DEF Restart, RGoes, SetResetMode, StartReset, StartMode, StartIer
  <2>1. CASE RestartNow  BY <1>4, <2>1 DEF RestartNow
  <2>2. CASE RestartFires  BY <1>4, <2>2 DEF RestartFires
  <2>3. CASE RestartStart  BY <1>4, <2>3 DEF RestartStart
  <2>4. CASE RestartWake  BY <1>4, <2>4 DEF RestartWake
  <2>5. CASE RestartDone  BY <1>4, <2>5 DEF RestartDone
  <2> QED  BY <1>4, <2>1, <2>2, <2>3, <2>4, <2>5
<1>5. CASE Interrupt
  <2> USE DEF Interrupt, AfterRx, NextPass, ErrIrq
  <2>1. CASE IrqEnter  BY <1>5, <2>1 DEF IrqEnter
  <2>2. CASE IrqClear  BY <1>5, <2>2 DEF IrqClear
  <2>3. CASE IrqPass  BY <1>5, <2>3 DEF IrqPass
  <2>4. CASE IrqRx  BY <1>5, <2>4 DEF IrqRx
  <2>5. CASE IrqErr  BY <1>5, <2>5 DEF IrqErr
  <2>6. CASE IrqErrNoMem  BY <1>5, <2>6 DEF IrqErrNoMem
  <2> QED  BY <1>5, <2>1, <2>2, <2>3, <2>4, <2>5, <2>6
<1>6. CASE UNCHANGED vars
  BY <1>6 DEF vars
<1> QED  BY <1>1, <1>2, <1>3, <1>4, <1>5, <1>6 DEF Next

\* The frame and its echo.
LEMMA FlightStep == ~ModeMayFail /\ CInv /\ Modes /\ Flight /\ [Next]_vars => Flight'
<1> SUFFICES ASSUME ~ModeMayFail, CInv, Modes, Flight, [Next]_vars PROVE Flight'
  OBVIOUS
<1> USE DEF CInv, TInv, Flags, Places, Numbers, Controls, Modes, Flight,
       Coming, Opening, Enabled, Raised, SoftIrqMayRun, ProcessMayRun, chip,
       net, handler
<1>1. CASE Chip
  <2> USE DEF Chip, BusEvent, Latch
  <2>1. CASE ChipSends  BY <1>1, <2>1 DEF ChipSends
  <2>2. CASE ChipReceives  BY <1>1, <2>2 DEF ChipReceives
  <2>3. CASE ChipLosesArbitration  BY <1>1, <2>3 DEF ChipLosesArbitration
  <2>4. CASE ChipErrorLevel  BY <1>1, <2>4 DEF ChipErrorLevel
  <2>5. CASE ChipBusOff  BY <1>1, <2>5 DEF ChipBusOff
  <2> QED  BY <1>1, <2>1, <2>2, <2>3, <2>4, <2>5
<1>2. CASE OpenClose
  <2> USE DEF OpenClose, Goes, SetResetMode, StartReset, StartMode, StartIer
  <2>1. CASE OpenReset  BY <1>2, <2>1 DEF OpenReset
  <2>2. CASE OpenRequest  BY <1>2, <2>2 DEF OpenRequest
  <2>3. CASE OpenFails  BY <1>2, <2>3 DEF OpenFails
  <2>4. CASE OpenStart  BY <1>2, <2>4 DEF OpenStart
  <2>5. CASE OpenDone  BY <1>2, <2>5 DEF OpenDone
  <2>6. CASE CloseStop  BY <1>2, <2>6 DEF CloseStop
  <2>7. CASE CloseReset  BY <1>2, <2>7 DEF CloseReset
  <2>8. CASE CloseFree  BY <1>2, <2>8 DEF CloseFree
  <2> QED  BY <1>2, <2>1, <2>2, <2>3, <2>4, <2>5, <2>6, <2>7, <2>8
<1>3. CASE Xmit
  <2> USE DEF Xmit
  <2>1. CASE XmitStop  BY <1>3, <2>1 DEF XmitStop
  <2>2. CASE XmitEcho  BY <1>3, <2>2 DEF XmitEcho
  <2>3. CASE XmitRequest  BY <1>3, <2>3 DEF XmitRequest
  <2> QED  BY <1>3, <2>1, <2>2, <2>3
<1>4. CASE Restart
  <2> USE DEF Restart, RGoes, SetResetMode, StartReset, StartMode, StartIer
  <2>1. CASE RestartNow  BY <1>4, <2>1 DEF RestartNow
  <2>2. CASE RestartFires  BY <1>4, <2>2 DEF RestartFires
  <2>3. CASE RestartStart  BY <1>4, <2>3 DEF RestartStart
  <2>4. CASE RestartWake  BY <1>4, <2>4 DEF RestartWake
  <2>5. CASE RestartDone  BY <1>4, <2>5 DEF RestartDone
  <2> QED  BY <1>4, <2>1, <2>2, <2>3, <2>4, <2>5
<1>5. CASE Interrupt
  <2> USE DEF Interrupt, AfterRx, NextPass, ErrIrq
  <2>1. CASE IrqEnter  BY <1>5, <2>1 DEF IrqEnter
  <2>2. CASE IrqClear  BY <1>5, <2>2 DEF IrqClear
  <2>3. CASE IrqPass  BY <1>5, <2>3 DEF IrqPass
  <2>4. CASE IrqRx  BY <1>5, <2>4 DEF IrqRx
  <2>5. CASE IrqErr  BY <1>5, <2>5 DEF IrqErr
  <2>6. CASE IrqErrNoMem  BY <1>5, <2>6 DEF IrqErrNoMem
  <2> QED  BY <1>5, <2>1, <2>2, <2>3, <2>4, <2>5, <2>6
<1>6. CASE UNCHANGED vars
  BY <1>6 DEF vars
<1> QED  BY <1>1, <1>2, <1>3, <1>4, <1>5, <1>6 DEF Next

\* The frames looped back.
LEMMA OrderStep == FInv /\ Order /\ [Next]_vars => Order'
<1> SUFFICES ASSUME FInv, Order, [Next]_vars PROVE Order'
  OBVIOUS
<1> USE DEF FInv, CInv, TInv, Places, Numbers, Sets, Queue, Controls, Flight,
       Coming, Order, LoopedAfterSent, Frames, NoFrame, Raised, SoftIrqMayRun,
       ProcessMayRun, chip, net, handler
<1>1. CASE Chip
  <2> USE DEF Chip, BusEvent, Latch
  <2>1. CASE ChipSends  BY <1>1, <2>1 DEF ChipSends
  <2>2. CASE ChipReceives  BY <1>1, <2>2 DEF ChipReceives
  <2>3. CASE ChipLosesArbitration  BY <1>1, <2>3 DEF ChipLosesArbitration
  <2>4. CASE ChipErrorLevel  BY <1>1, <2>4 DEF ChipErrorLevel
  <2>5. CASE ChipBusOff  BY <1>1, <2>5 DEF ChipBusOff
  <2> QED  BY <1>1, <2>1, <2>2, <2>3, <2>4, <2>5
<1>2. CASE OpenClose
  <2> USE DEF OpenClose, Goes, SetResetMode, StartReset, StartMode, StartIer
  <2>1. CASE OpenReset  BY <1>2, <2>1 DEF OpenReset
  <2>2. CASE OpenRequest  BY <1>2, <2>2 DEF OpenRequest
  <2>3. CASE OpenFails  BY <1>2, <2>3 DEF OpenFails
  <2>4. CASE OpenStart  BY <1>2, <2>4 DEF OpenStart
  <2>5. CASE OpenDone  BY <1>2, <2>5 DEF OpenDone
  <2>6. CASE CloseStop  BY <1>2, <2>6 DEF CloseStop
  <2>7. CASE CloseReset  BY <1>2, <2>7 DEF CloseReset
  <2>8. CASE CloseFree  BY <1>2, <2>8 DEF CloseFree
  <2> QED  BY <1>2, <2>1, <2>2, <2>3, <2>4, <2>5, <2>6, <2>7, <2>8
<1>3. CASE Xmit
  <2> USE DEF Xmit
  <2>1. CASE XmitStop
    <3> USE DEF XmitStop
    <3>1. echo = NoFrame /\ ~Coming'  BY <1>3, <2>1 DEF Enabled
    <3>2. sent' = sent + 1 /\ looped' = looped /\ done' = done  BY <1>3, <2>1
    <3>3. LoopedAfterSent'  BY <3>2
    <3>4. \A i \in 1 .. Len(looped') : looped'[i] <= sent' /\ looped'[i] < sent'
      <4> SUFFICES ASSUME NEW i \in 1 .. Len(looped) 
               PROVE  looped[i] <= sent + 1 /\ looped[i] < sent + 1
        BY <3>2
      <4>1. looped[i] \in Nat /\ looped[i] <= sent /\ sent \in Nat  BY ConstantsOK
      <4> QED  BY <4>1
    <3>5. echo' = NoFrame  BY <1>3, <2>1, <3>1
    <3> QED  BY <3>1, <3>3, <3>4, <3>5
  <2>2. CASE XmitEcho  BY <1>3, <2>2 DEF XmitEcho
  <2>3. CASE XmitRequest  BY <1>3, <2>3 DEF XmitRequest
  <2> QED  BY <1>3, <2>1, <2>2, <2>3
<1>4. CASE Restart
  <2> USE DEF Restart, RGoes, SetResetMode, StartReset, StartMode, StartIer
  <2>1. CASE RestartNow  BY <1>4, <2>1 DEF RestartNow
  <2>2. CASE RestartFires  BY <1>4, <2>2 DEF RestartFires
  <2>3. CASE RestartStart  BY <1>4, <2>3 DEF RestartStart
  <2>4. CASE RestartWake  BY <1>4, <2>4 DEF RestartWake
  <2>5. CASE RestartDone  BY <1>4, <2>5 DEF RestartDone
  <2> QED  BY <1>4, <2>1, <2>2, <2>3, <2>4, <2>5
<1>5. CASE Interrupt
  <2> USE DEF Interrupt, AfterRx, NextPass, ErrIrq
  <2>1. CASE IrqEnter  BY <1>5, <2>1 DEF IrqEnter
  <2>2. CASE IrqClear  BY <1>5, <2>2 DEF IrqClear
  <2>3. CASE IrqPass
    <3> USE DEF IrqPass
    <3>1. CASE ~("TI" \in isrc /\ echo # NoFrame)
      <4>1. looped' = looped /\ echo' = echo  BY <1>5, <2>3, <3>1
      <4> QED  BY <1>5, <2>3, <4>1
    <3>2. CASE "TI" \in isrc /\ echo # NoFrame
      <4>1. /\ looped' = Append(looped, echo) /\ echo' = NoFrame
            /\ sent' = sent /\ done' = done /\ xpc' = xpc
        BY <1>5, <2>3, <3>2
      <4>2. xpc = "idle" /\ echo = sent /\ echo \in done  BY <2>3, <3>2
      <4>3. Len(looped') = Len(looped) + 1 /\ looped'[Len(looped) + 1] = echo
            /\ \A i \in 1 .. Len(looped) : looped'[i] = looped[i]
        BY <4>1
      <4>4. \A i \in 1 .. Len(looped) : looped[i] < echo /\ looped[i] \in done
        BY <3>2, <4>2
      <4>5. \A i \in 1 .. Len(looped') : looped'[i] \in done' /\ looped'[i] <= sent'
        BY <4>1, <4>2, <4>3, <4>4
      <4>6. ASSUME NEW i \in 1 .. Len(looped'), NEW j \in 1 .. Len(looped'), i < j
            PROVE  looped'[i] < looped'[j]
        <5>1. CASE j = Len(looped) + 1  BY <4>3, <4>4, <4>6, <5>1
        <5>2. CASE j # Len(looped) + 1  BY <4>3, <4>6, <5>2
        <5> QED  BY <5>1, <5>2
      <4> QED  BY <4>1, <4>2, <4>5, <4>6
    <3> QED  BY <3>1, <3>2
  <2>4. CASE IrqRx  BY <1>5, <2>4 DEF IrqRx
  <2>5. CASE IrqErr  BY <1>5, <2>5 DEF IrqErr
  <2>6. CASE IrqErrNoMem  BY <1>5, <2>6 DEF IrqErrNoMem
  <2> QED  BY <1>5, <2>1, <2>2, <2>3, <2>4, <2>5, <2>6
<1>6. CASE UNCHANGED vars
  BY <1>6 DEF vars
<1> QED  BY <1>1, <1>2, <1>3, <1>4, <1>5, <1>6 DEF Next

\* No frame is sent twice.
LEMMA FreshStep == FInv /\ Order /\ Fresh /\ [Next]_vars => Fresh'
<1> SUFFICES ASSUME FInv, Order, Fresh, [Next]_vars PROVE Fresh'
  OBVIOUS
<1> USE ConstantsOK DEF FInv, CInv, TInv, Numbers, Sets, Flight, Order, Fresh,
       Frames, NoFrame, chip, net, handler
<1>1. CASE Chip
  <2> USE DEF Chip, BusEvent
  <2>1. CASE ChipSends
    <3>1. tx = sent /\ done' = done \cup {tx} /\ tx' = NoFrame /\ sent' = sent /\ xpc' = "idle"
      BY <1>1, <2>1 DEF ChipSends
    <3> QED  BY <3>1
  <2>2. CASE ~ChipSends
    BY <1>1, <2>2 DEF ChipReceives, ChipLosesArbitration, ChipErrorLevel, ChipBusOff
  <2> QED  BY <2>1, <2>2
<1>2. CASE OpenClose
  BY <1>2 DEF OpenClose, OpenReset, OpenRequest, OpenFails, OpenStart,
     OpenDone, CloseStop, CloseReset, CloseFree, Goes, SetResetMode,
     StartReset, StartMode, StartIer
<1>3. CASE Xmit
  <2> USE DEF Xmit
  <2>1. CASE XmitStop
    <3>1. tx = NoFrame  BY <1>3, <2>1 DEF XmitStop
    <3>2. sent' = sent + 1 /\ done' = done /\ tx' = tx  BY <1>3, <2>1 DEF XmitStop
    <3>3. \A f \in done : f \in Nat /\ f <= sent  OBVIOUS
    <3> QED  BY <3>1, <3>2, <3>3
  <2>2. CASE XmitEcho  BY <1>3, <2>2 DEF XmitEcho
  <2>3. CASE XmitRequest  BY <1>3, <2>3 DEF XmitRequest
  <2> QED  BY <1>3, <2>1, <2>2, <2>3
<1>4. CASE Restart
  BY <1>4 DEF Restart, RestartNow, RestartFires, RestartStart,
     RestartWake, RestartDone, RGoes, SetResetMode, StartReset, StartMode,
     StartIer
<1>5. CASE Interrupt
  BY <1>5 DEF Interrupt, IrqEnter, IrqClear, IrqPass, IrqRx, IrqErr,
     IrqErrNoMem, AfterRx, NextPass, ErrIrq
<1>6. CASE UNCHANGED vars
  BY <1>6 DEF vars
<1> QED  BY <1>1, <1>2, <1>3, <1>4, <1>5, <1>6 DEF Next

LEMMA EarnedType == Sets => Cardinality(done) \in Nat /\ Earned \in Nat
<1> SUFFICES ASSUME Sets PROVE Cardinality(done) \in Nat /\ Earned \in Nat
  OBVIOUS
<1>1. IsFiniteSet(1 .. MaxFrames)
  BY ConstantsOK, FS_Interval
<1>2. IsFiniteSet(done)
  BY <1>1, FS_Subset DEF Sets, Frames
<1>3. Cardinality(done) \in Nat
  BY <1>2, FS_CardinalityType
<1>4. \A c \in Nat : MaxIrq * c \in Nat
  BY ConstantsOK
<1> QED  BY <1>3, <1>4 DEF Earned

\* One more frame on the bus pays for one more interrupt.
LEMMA OneMoreFrame ==
  ASSUME Sets, NEW f \in Frames, f \notin done, done' = done \cup {f}
  PROVE  Earned' = Earned + MaxIrq
<1>1. IsFiniteSet(1 .. MaxFrames)
  BY ConstantsOK, FS_Interval
<1>2. IsFiniteSet(done)
  BY <1>1, FS_Subset DEF Sets, Frames
<1>3. Cardinality(done') = Cardinality(done) + 1
  BY <1>2, FS_AddElement
<1>4. \A c \in Nat : MaxIrq * (c + 1) = MaxIrq * c + MaxIrq
  BY ConstantsOK
<1> QED  BY <1>3, <1>4, EarnedType DEF Earned

DueFalls == done' = done /\ txPackets' + Due' <= txPackets + Due

\* Every pass that counts a frame uses up one that is due.
LEMMA DueStep == FInv /\ ~(Chip /\ ChipSends) /\ [Next]_vars => DueFalls
<1> SUFFICES ASSUME FInv, ~(Chip /\ ChipSends), [Next]_vars PROVE DueFalls
  OBVIOUS
<1> USE ConstantsOK DEF DueFalls, FInv, CInv, TInv, Places, Numbers, Flight,
       Coming, Due, NoFrame, chip, net, handler
<1>1. CASE Chip
  <2> USE DEF Chip, BusEvent, Latch
  <2>1. CASE ChipSends  BY <1>1, <2>1 DEF ChipSends
  <2>2. CASE ChipReceives  BY <1>1, <2>2 DEF ChipReceives
  <2>3. CASE ChipLosesArbitration  BY <1>1, <2>3 DEF ChipLosesArbitration
  <2>4. CASE ChipErrorLevel  BY <1>1, <2>4 DEF ChipErrorLevel
  <2>5. CASE ChipBusOff  BY <1>1, <2>5 DEF ChipBusOff
  <2> QED  BY <1>1, <2>1, <2>2, <2>3, <2>4, <2>5
<1>2. CASE OpenClose
  <2> USE DEF OpenClose, Goes, SetResetMode, StartReset, StartMode, StartIer
  <2>1. CASE OpenReset  BY <1>2, <2>1 DEF OpenReset
  <2>2. CASE OpenRequest  BY <1>2, <2>2 DEF OpenRequest
  <2>3. CASE OpenFails  BY <1>2, <2>3 DEF OpenFails
  <2>4. CASE OpenStart  BY <1>2, <2>4 DEF OpenStart
  <2>5. CASE OpenDone  BY <1>2, <2>5 DEF OpenDone
  <2>6. CASE CloseStop  BY <1>2, <2>6 DEF CloseStop
  <2>7. CASE CloseReset  BY <1>2, <2>7 DEF CloseReset
  <2>8. CASE CloseFree  BY <1>2, <2>8 DEF CloseFree
  <2> QED  BY <1>2, <2>1, <2>2, <2>3, <2>4, <2>5, <2>6, <2>7, <2>8
<1>3. CASE Xmit
  <2> USE DEF Xmit
  <2>1. CASE XmitStop  BY <1>3, <2>1 DEF XmitStop
  <2>2. CASE XmitEcho  BY <1>3, <2>2 DEF XmitEcho
  <2>3. CASE XmitRequest  BY <1>3, <2>3 DEF XmitRequest
  <2> QED  BY <1>3, <2>1, <2>2, <2>3
<1>4. CASE Restart
  <2> USE DEF Restart, RGoes, SetResetMode, StartReset, StartMode, StartIer
  <2>1. CASE RestartNow  BY <1>4, <2>1 DEF RestartNow
  <2>2. CASE RestartFires  BY <1>4, <2>2 DEF RestartFires
  <2>3. CASE RestartStart  BY <1>4, <2>3 DEF RestartStart
  <2>4. CASE RestartWake  BY <1>4, <2>4 DEF RestartWake
  <2>5. CASE RestartDone  BY <1>4, <2>5 DEF RestartDone
  <2> QED  BY <1>4, <2>1, <2>2, <2>3, <2>4, <2>5
<1>5. CASE Interrupt
  <2> USE DEF Interrupt, AfterRx, NextPass, ErrIrq
  <2>1. CASE IrqEnter  BY <1>5, <2>1 DEF IrqEnter
  <2>2. CASE IrqClear  BY <1>5, <2>2 DEF IrqClear
  <2>3. CASE IrqPass  BY <1>5, <2>3 DEF IrqPass
  <2>4. CASE IrqRx  BY <1>5, <2>4 DEF IrqRx
  <2>5. CASE IrqErr  BY <1>5, <2>5 DEF IrqErr
  <2>6. CASE IrqErrNoMem  BY <1>5, <2>6 DEF IrqErrNoMem
  <2> QED  BY <1>5, <2>1, <2>2, <2>3, <2>4, <2>5, <2>6
<1>6. CASE UNCHANGED vars
  BY <1>6 DEF vars
<1> QED  BY <1>1, <1>2, <1>3, <1>4, <1>5, <1>6 DEF Next

LEMMA PaidStep == FInv /\ Fresh /\ Paid /\ [Next]_vars => Paid'
<1> SUFFICES ASSUME FInv, Fresh, Paid, [Next]_vars PROVE Paid'
  OBVIOUS
<1>0. Flags /\ Places /\ Numbers /\ Sets /\ Flight  BY DEF FInv, CInv, TInv
<1>1. Due \in Nat /\ txPackets \in Nat /\ Earned \in Nat
  BY ConstantsOK, <1>0, EarnedType DEF Due, Numbers, Places
<1>2. Due' \in Nat /\ txPackets' \in Nat
  BY ConstantsOK, <1>0, NumbersStep, PlacesStep DEF Due, Numbers, Places
<1>3. CASE Chip /\ ChipSends
  <2>1. tx \in Frames /\ tx \notin done /\ ~Coming
    BY <1>0, <1>3 DEF ChipSends, Fresh, Flight, Numbers
  <2>2. /\ done' = done \cup {tx} /\ txPackets' = txPackets
        /\ isrc' = isrc /\ ipc' = ipc
    BY <1>3 DEF Chip, ChipSends, handler
  <2>3. Due = 0 /\ Due' <= MaxIrq  BY ConstantsOK, <2>1, <2>2 DEF Due, Coming
  <2>4. Earned' = Earned + MaxIrq  BY <1>0, <2>1, <2>2, OneMoreFrame
  <2>5. \A u, v, e, m \in Nat : u + 0 <= e /\ v <= m => u + v <= e + m  OBVIOUS
  <2>6. txPackets + 0 <= Earned  BY <2>3 DEF Paid
  <2>7. txPackets + Due' <= Earned + MaxIrq  BY ConstantsOK, <1>1, <1>2, <2>3, <2>5, <2>6
  <2> QED  BY <2>2, <2>4, <2>7 DEF Paid
<1>4. CASE ~(Chip /\ ChipSends)
  <2>1. done' = done /\ txPackets' + Due' <= txPackets + Due  BY <1>4, DueStep DEF DueFalls
  <2>2. Earned' = Earned  BY <2>1 DEF Earned
  <2>3. \A x, y, u, v, e \in Nat : x + y <= u + v /\ u + v <= e => x + y <= e  OBVIOUS
  <2>4. txPackets' + Due' <= Earned  BY <1>1, <1>2, <2>1, <2>3 DEF Paid
  <2> QED  BY <2>2, <2>4 DEF Paid
<1> QED  BY <1>3, <1>4

-----------------------------------------------------------------------------
LEMMA Initially == Init => CInv /\ Stops /\ Modes /\ Flight /\ Order /\ Fresh /\ Paid
<1> SUFFICES ASSUME Init PROVE CInv /\ Stops /\ Modes /\ Flight /\ Order /\ Fresh /\ Paid
  OBVIOUS
<1> USE ConstantsOK DEF Init, NoFrame
<1>1. Flags  BY DEF Flags
<1>2. Places  BY DEF Places, States, Levels
<1>3. Numbers /\ Sets /\ Queue  BY DEF Numbers, Sets, Queue, Frames
<1>4. Controls /\ Closing  BY DEF Controls, Closing, Opening, Running
<1>5. Stops /\ Modes  BY DEF Stops, Modes, Opening
<1>6. Flight /\ Order /\ Fresh  BY DEF Flight, Order, Fresh, Coming, LoopedAfterSent
<1>7. Paid
  <2>1. Cardinality(done) = 0  BY FS_EmptySet
  <2> QED  BY <2>1 DEF Paid, Earned, Due
<1> QED  BY <1>1, <1>2, <1>3, <1>4, <1>5, <1>6, <1>7 DEF CInv, TInv

LEMMA ControlInvariant == Spec => [](CInv /\ Stops)
<1>1. Init => CInv /\ Stops
  BY Initially
<1>2. (CInv /\ Stops) /\ [Next]_vars => (CInv /\ Stops)'
  BY FlagsStep, PlacesStep, NumbersStep, SetsStep, QueueStep, ControlsStep,
     ClosingStep, StopsStep DEF CInv, TInv
<1> QED  BY <1>1, <1>2, PTL DEF Spec

LEMMA FrameInvariant == ASSUME ~ModeMayFail PROVE Spec => []OInv
<1>1. Init => OInv
  BY Initially DEF OInv, FInv
<1>2. (CInv /\ Stops) /\ (CInv /\ Stops)' /\ OInv /\ [Next]_vars => OInv'
  BY ModesStep, FlightStep, OrderStep, FreshStep, PaidStep DEF OInv, FInv
<1> QED  BY <1>1, <1>2, ControlInvariant, PTL DEF Spec

(* Driver, controller and kernel keep the types of their state: the pass   *)
(* counter of the handler stays within ASM9260_MAX_IRQ.                    *)
THEOREM TypeCorrect == Spec => []TypeOK
<1>1. CInv => TypeOK
  BY DEF CInv, TInv, Flags, Places, Numbers, Sets, Queue, TypeOK
<1> QED  BY <1>1, ControlInvariant, PTL

(* asm9260_close: interrupts off, timer and echo gone, unless a restart    *)
(* ran inside close.                                                       *)
THEOREM ClosedDeviceIsSilent == Spec => []ClosedIsSilent
<1>1. CInv => ClosedIsSilent
  BY DEF CInv, TInv, Flags, Controls, Closing, Opening, ClosedIsSilent
<1> QED  BY <1>1, ControlInvariant, PTL

(* asm9260_start_xmit, asm9260_interrupt, asm9260_set_mode: why a queue    *)
(* stays stopped.                                                          *)
THEOREM StoppedQueueHasCause == Spec => []StopHasCause
<1>1. Stops => StopHasCause
  BY DEF Stops, StopHasCause
<1> QED  BY <1>1, ControlInvariant, PTL

(* The frame the controller is sending is the one in the echo slot.        *)
THEOREM EchoFollowsFrame == ASSUME ~ModeMayFail PROVE Spec => []EchoIsInFlight
<1>1. OInv => EchoIsInFlight
  BY DEF OInv, FInv, Flight, EchoIsInFlight
<1> QED  BY <1>1, FrameInvariant, PTL

(* can_put_echo_skb finds its slot free.                                   *)
THEOREM SlotIsFree == ASSUME ~ModeMayFail PROVE Spec => []SlotFreeForXmit
<1>1. OInv => SlotFreeForXmit
  BY DEF OInv, FInv, Flight, SlotFreeForXmit
<1> QED  BY <1>1, FrameInvariant, PTL

(* can_get_echo_skb: what is looped back was sent, once, and in order.     *)
THEOREM LoopbackInOrder == ASSUME ~ModeMayFail PROVE Spec => []LoopedAfterSent
<1>1. OInv => LoopedAfterSent
  BY DEF OInv, Order
<1> QED  BY <1>1, FrameInvariant, PTL

\* Every step is a step of LocalEcho or leaves it alone.
LEMMA EchoStep == OInv /\ [Next]_vars => [Echo!Next]_(Echo!vars)
<1> SUFFICES ASSUME OInv, [Next]_vars PROVE [Echo!Next]_(Echo!vars)
  OBVIOUS
<1> USE DEF OInv, FInv, CInv, TInv, Frames, Echo!vars, Echo!Next, chip, net,
       handler
<1>1. CASE Chip
  <2> USE DEF Chip, BusEvent, Latch
  <2>1. CASE ChipSends
    <3>1. tx = echo /\ tx # NoFrame /\ tx \notin done  BY <1>1, <2>1 DEF ChipSends, Flight, Fresh
    <3>2. done' = done \cup {tx} /\ echo' = echo /\ looped' = looped  BY <1>1, <2>1 DEF ChipSends
    <3> QED  BY <3>1, <3>2 DEF Echo!Air
  <2>2. CASE ChipReceives  BY <1>1, <2>2 DEF ChipReceives
  <2>3. CASE ChipLosesArbitration  BY <1>1, <2>3 DEF ChipLosesArbitration
  <2>4. CASE ChipErrorLevel  BY <1>1, <2>4 DEF ChipErrorLevel
  <2>5. CASE ChipBusOff  BY <1>1, <2>5 DEF ChipBusOff
  <2> QED  BY <1>1, <2>1, <2>2, <2>3, <2>4, <2>5
<1>2. CASE OpenClose
  <2> USE DEF OpenClose, Goes, SetResetMode, StartReset, StartMode, StartIer
  <2>1. CASE OpenReset  BY <1>2, <2>1 DEF OpenReset
  <2>2. CASE OpenRequest  BY <1>2, <2>2 DEF OpenRequest
  <2>3. CASE OpenFails  BY <1>2, <2>3 DEF OpenFails
  <2>4. CASE OpenStart  BY <1>2, <2>4 DEF OpenStart
  <2>5. CASE OpenDone  BY <1>2, <2>5 DEF OpenDone
  <2>6. CASE CloseStop  BY <1>2, <2>6 DEF CloseStop
  <2>7. CASE CloseReset  BY <1>2, <2>7 DEF CloseReset
  <2>8. CASE CloseFree
    <3>1. echo' = NoFrame /\ done' = done /\ looped' = looped  BY <1>2, <2>8 DEF CloseFree
    <3> QED  BY <3>1 DEF Echo!Drop
  <2> QED  BY <1>2, <2>1, <2>2, <2>3, <2>4, <2>5, <2>6, <2>7, <2>8
<1>3. CASE Xmit
  <2> USE DEF Xmit
  <2>1. CASE XmitStop  BY <1>3, <2>1 DEF XmitStop
  <2>2. CASE XmitEcho
    <3>1. echo = NoFrame /\ echo' = sent /\ done' = done /\ looped' = looped
      BY <1>3, <2>2 DEF XmitEcho, Flight
    <3>2. sent \in Frames  BY <1>3, <2>2, ConstantsOK DEF XmitEcho, Numbers
    <3>3. \A f \in done : f < sent
      BY <1>3, <2>2, ConstantsOK DEF XmitEcho, Fresh, Numbers, Sets
    <3> QED  BY <3>1, <3>2, <3>3 DEF Echo!Take
  <2>3. CASE XmitRequest  BY <1>3, <2>3 DEF XmitRequest
  <2> QED  BY <1>3, <2>1, <2>2, <2>3
<1>4. CASE Restart
  <2> USE DEF Restart, RGoes, SetResetMode, StartReset, StartMode, StartIer
  <2>1. CASE RestartNow  BY <1>4, <2>1 DEF RestartNow
  <2>2. CASE RestartFires
    <3>1. echo' = NoFrame /\ done' = done /\ looped' = looped  BY <1>4, <2>2 DEF RestartFires
    <3> QED  BY <3>1 DEF Echo!Drop
  <2>3. CASE RestartStart  BY <1>4, <2>3 DEF RestartStart
  <2>4. CASE RestartWake  BY <1>4, <2>4 DEF RestartWake
  <2>5. CASE RestartDone  BY <1>4, <2>5 DEF RestartDone
  <2> QED  BY <1>4, <2>1, <2>2, <2>3, <2>4, <2>5
<1>5. CASE Interrupt
  <2> USE DEF Interrupt, AfterRx, NextPass, ErrIrq
  <2>1. CASE IrqEnter  BY <1>5, <2>1 DEF IrqEnter
  <2>2. CASE IrqClear  BY <1>5, <2>2 DEF IrqClear
  <2>3. CASE IrqPass
    <3>1. done' = done  BY <1>5, <2>3 DEF IrqPass
    <3>2. CASE ~("TI" \in isrc /\ echo # NoFrame)
      <4>1. looped' = looped /\ echo' = echo  BY <1>5, <2>3, <3>2 DEF IrqPass
      <4> QED  BY <3>1, <4>1
    <3>3. CASE "TI" \in isrc /\ echo # NoFrame
      <4>1. looped' = Append(looped, echo) /\ echo' = NoFrame  BY <1>5, <2>3, <3>3 DEF IrqPass
      <4>2. echo \in done  BY <2>3, <3>3 DEF IrqPass, Order, Coming
      <4> QED  BY <3>1, <4>1, <4>2 DEF Echo!Loop
    <3> QED  BY <3>2, <3>3
  <2>4. CASE IrqRx  BY <1>5, <2>4 DEF IrqRx
  <2>5. CASE IrqErr  BY <1>5, <2>5 DEF IrqErr
  <2>6. CASE IrqErrNoMem  BY <1>5, <2>6 DEF IrqErrNoMem
  <2> QED  BY <1>5, <2>1, <2>2, <2>3, <2>4, <2>5, <2>6
<1>6. CASE UNCHANGED vars
  BY <1>6 DEF vars
<1> QED  BY <1>1, <1>2, <1>3, <1>4, <1>5, <1>6 DEF Next

(* The driver implements LocalEcho: put_echo and get_echo around the       *)
(* controller are a loopback of one frame at a time.                       *)
THEOREM EchoIsImplemented == ASSUME ~ModeMayFail PROVE Spec => EchoSpec
<1>1. Init => Echo!Init
  BY DEF Init, Echo!Init
<1>2. OInv /\ [Next]_vars => [Echo!Next]_(Echo!vars)
  BY EchoStep
<1> QED  BY <1>1, <1>2, FrameInvariant, PTL DEF Spec, EchoSpec, Echo!Spec

(* tx_packets: at most ASM9260_MAX_IRQ counts for a frame on the bus.      *)
THEOREM CountIsBounded == ASSUME ~ModeMayFail PROVE Spec => []CountBounded
<1>1. OInv => CountBounded
  <2> SUFFICES ASSUME OInv PROVE CountBounded
    OBVIOUS
  <2> USE ConstantsOK DEF OInv, FInv, CInv, TInv
  <2>1. Due \in Nat /\ txPackets \in Nat  BY DEF Due, Numbers, Places
  <2>2. Earned \in Nat  BY EarnedType
  <2>3. txPackets <= Earned  BY <2>1, <2>2 DEF Paid
  <2> QED  BY <2>3 DEF Earned, CountBounded
<1> QED  BY <1>1, FrameInvariant, PTL

=============================================================================
