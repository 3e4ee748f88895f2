------------------------------- MODULE KeyPort -------------------------------
(* The port both key drivers of the ASM9260 board get their edges from.    *)
EXTENDS Naturals

CONSTANTS
  LatchesMasked, \* does the port latch an edge of a pin it does not let interrupt?
  MaxEdges       \* bound: level changes of the pin

ASSUME ConstantsOK == LatchesMasked \in BOOLEAN /\ MaxEdges \in Nat
==============================================================================
