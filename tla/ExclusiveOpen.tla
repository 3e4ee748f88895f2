---------------------------- MODULE ExclusiveOpen ----------------------------
(***************************************************************************)
(* What the open and release functions of the character drivers promise    *)
(* together: one opener at a time holds the device, from its open to its   *)
(* release.  OpenGate is shown to implement it.                            *)
(***************************************************************************)
CONSTANTS Procs, Nobody

VARIABLES holder   \* the opener that holds the device, or Nobody

Init == holder = Nobody

Take(p) == holder = Nobody /\ holder' = p

Give(p) == holder = p /\ holder' = Nobody

Next == \E p \in Procs : Take(p) \/ Give(p)

Spec == Init /\ [][Next]_holder
==============================================================================
