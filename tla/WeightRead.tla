----------------------------- MODULE WeightRead ------------------------------
(***************************************************************************)
(* The read functions of the four weight sensors of the IMX6 board         *)
(* (1HM_HX711X4.c) and the HX711 converters they clock (iic_analog.c): one *)
(* mutex for all sensors, one static result per sensor that is written     *)
(* under the mutex and copied to the user after it is given back, and a    *)
(* wait for the converter that has no timeout.                             *)
(*                                                                         *)
(* A file that OpenGate let through may be read by several threads.  A     *)
(* call with a wrong count returns before it touches anything and is left  *)
(* out.  A weight is represented by what makes it right for a caller: the  *)
(* sensor it was sampled from, and the calls that were already under way   *)
(* when the first of its samples was taken.                                *)
(***************************************************************************)
EXTENDS Naturals

CONSTANTS
  Threads, Sensors,
  Nobody,        \* no thread: the mutex is free
  Samples        \* samples get_weight averages, 10

ASSUME ConstantsOK == Nobody \notin Threads /\ Samples \in Nat \ {0}

VARIABLES
  attached,  \* per sensor: is there a converter that answers?
  ready,     \* per sensor: DOUT low, a conversion waits to be clocked out
  mutex,     \* weight_mutex: its holder
  data,      \* per sensor: the static result of its read function
  pc, on,    \* per thread: where it is in which sensor's read function
  count,     \* samples the holder has taken
  early      \* the calls under way when the holder took its first sample

converters == <<attached, ready>>
vars == <<converters, mutex, data, pc, on, count, early>>

Weights == [of : Sensors, early : SUBSET Threads]

Init ==
  /\ attached = [s \in Sensors |-> TRUE]
  /\ ready = [s \in Sensors |-> FALSE]
  /\ mutex = Nobody
  /\ data = [s \in Sensors |-> [of |-> s, early |-> {}]]
  /\ pc = [t \in Threads |-> "idle"]
  /\ on \in [Threads -> Sensors]
  /\ count = 0 /\ early = {}

-----------------------------------------------------------------------------
(* The converters, which run by themselves until they are unplugged.       *)

Convert(s) ==
  /\ attached[s] /\ ~ready[s]
  /\ ready' = [ready EXCEPT ![s] = TRUE]
  /\ UNCHANGED <<attached, mutex, data, pc, on, count, early>>

Plug(s) ==
  /\ attached' = [attached EXCEPT ![s] = ~@]
  /\ ready' = [ready EXCEPT ![s] = FALSE]
  /\ UNCHANGED <<mutex, data, pc, on, count, early>>

-----------------------------------------------------------------------------
(* weight_read, one step per access to what the threads share.             *)

Goes(t, from, to) == pc[t] = from /\ pc' = [pc EXCEPT ![t] = to]

\* A new call: no result so far was sampled for it.
Call(t, s) ==
  /\ Goes(t, "idle", "lock")
  /\ on' = [on EXCEPT ![t] = s]
  /\ data' = [x \in Sensors |-> [data[x] EXCEPT !.early = @ \ {t}]]
  /\ early' = early \ {t}
  /\ UNCHANGED <<converters, mutex, count>>

\* Mutant: the mutex is not waited for.
Lock_NoWait(t) ==
  /\ Goes(t, "lock", "sample")
  /\ mutex' = t /\ count' = 0
  /\ UNCHANGED <<converters, data, on, early>>

Lock(t) ==
  /\ mutex = Nobody
  /\ Goes(t, "lock", "sample")
  /\ mutex' = t /\ count' = 0
  /\ UNCHANGED <<converters, data, on, early>>

\* Mutant: the loop of get_weight runs once too often.
Sample_OneMore(t) ==
  /\ pc[t] = "sample" /\ count <= Samples
  /\ ready[on[t]]
  /\ ready' = [ready EXCEPT ![on[t]] = FALSE]
  /\ count' = count + 1
  /\ early' = IF count = 0 THEN {u \in Threads : pc[u] # "idle" /\ on[u] = on[t]}
                           ELSE early
  /\ UNCHANGED <<attached, mutex, data, pc, on>>

\* Read_HX711: a busy wait for DOUT, then 25 clocks.
Sample(t) ==
  /\ pc[t] = "sample" /\ count < Samples
  /\ ready[on[t]]
  /\ ready' = [ready EXCEPT ![on[t]] = FALSE]
  /\ count' = count + 1
  /\ early' = IF count = 0 THEN {u \in Threads : pc[u] # "idle" /\ on[u] = on[t]}
                           ELSE early
  /\ UNCHANGED <<attached, mutex, data, pc, on>>

\* Mutant: the four read functions share one static result.
Store_Shared(t) ==
  /\ count = Samples
  /\ Goes(t, "sample", "unlock")
  /\ data' = [x \in Sensors |-> [of |-> on[t], early |-> early]]
  /\ UNCHANGED <<converters, mutex, on, count, early>>

\* get_weight returns the average of its samples.
Store(t) ==
  /\ count = Samples
  /\ Goes(t, "sample", "unlock")
  /\ data' = [data EXCEPT ![on[t]] = [of |-> on[t], early |-> early]]
  /\ UNCHANGED <<converters, mutex, on, count, early>>

\* Mutant: the mutex is kept.
Unlock_Kept(t) ==
  /\ Goes(t, "unlock", "copy")
  /\ UNCHANGED <<converters, mutex, data, on, count, early>>

Unlock(t) ==
  /\ Goes(t, "unlock", "copy")
  /\ mutex' = Nobody
  /\ UNCHANGED <<converters, data, on, count, early>>

\* copy_to_user, or -EFAULT: the call is over.
Copy(t) ==
  /\ Goes(t, "copy", "idle")
  /\ UNCHANGED <<converters, mutex, data, on, count, early>>

Reads(t) == Lock(t) \/ Sample(t) \/ Store(t) \/ Unlock(t) \/ Copy(t)

Next ==
  \/ \E s \in Sensors : Convert(s) \/ Plug(s)
  \/ \E t \in Threads : Reads(t) \/ \E s \in Sensors : Call(t, s)

Spec == Init /\ [][Next]_vars

(* The threads run, converters that are plugged in convert, and a thread   *)
(* that waits for the mutex gets it if it is given back again and again    *)
(* (its waiters queue).                                                    *)
FairSpec ==
  /\ Spec
  /\ \A t \in Threads : WF_vars(Reads(t)) /\ SF_vars(Lock(t))
  /\ \A s \in Sensors : WF_vars(Convert(s))

-----------------------------------------------------------------------------
TypeOK ==
  /\ attached \in [Sensors -> BOOLEAN] /\ ready \in [Sensors -> BOOLEAN]
  /\ mutex \in Threads \cup {Nobody}
  /\ data \in [Sensors -> Weights]
  /\ pc \in [Threads -> {"idle", "lock", "sample", "unlock", "copy"}]
  /\ on \in [Threads -> Sensors]
  /\ count \in 0 .. Samples /\ early \in SUBSET Threads

(* What read hands out is a weight of the sensor it was asked for, all of  *)
(* whose samples were taken after the call began, although another read    *)
(* of the sensor may have replaced it since the mutex was given back.      *)
FreshWeight ==
  \A t \in Threads :
    pc[t] = "copy" => data[on[t]].of = on[t] /\ t \in data[on[t]].early

(* The samples of a weight are taken by one thread: nobody else clocks a   *)
(* converter from its first sample to the end of get_weight.               *)
AloneOnTheWire ==
  \A t, u \in Threads :
    pc[t] \in {"sample", "unlock"} /\ pc[u] \in {"sample", "unlock"} => t = u

(* Every read returns, unless its own sensor is unplugged or the holder of *)
(* the mutex waits for one that is: an unplugged sensor alone stops nobody *)
(* else.                                                                   *)
OthersReturn ==
  \A t \in Threads :
    (pc[t] # "idle") ~>
      \/ pc[t] = "idle"
      \/ ~attached[on[t]]
      \/ \E u \in Threads : mutex = u /\ ~attached[on[u]]
==============================================================================
