-------------------------------- MODULE Dht11 --------------------------------
(***************************************************************************)
(* The temperature and humidity driver of the IMX6 board (temphumi.c,      *)
(* dht11.c) between an open and a release; who gets through open is        *)
(* OpenGate's business.  The threads of the opener share the file.  A read *)
(* measures under the spinlock into statics that outlive it, stores them   *)
(* into a third static, and copies that one out after the lock is gone.    *)
(* The sensor may be missing or send a wrong checksum at any time.         *)
(*                                                                         *)
(* A measured value is the number of the measurement it comes from.        *)
(***************************************************************************)
EXTENDS Naturals

CONSTANTS
  Threads,  \* of the process that has the device open
  Nobody,
  Samples   \* bound: successful measurements

VARIABLES
  opened,       \* open has returned
  lock,         \* dht11_lock
  temperature,  \* statics of temphumi_read
  humidity,
  data,
  measured,     \* history: successful measurements
  pc,
  newest,       \* history: the last measurement when the read gave the lock back
  stored,       \* history: another thread stored into data since this one did
  out           \* the bytes copied to the user

vars == <<opened, lock, temperature, humidity, data, measured, pc, newest, stored, out>>

Init ==
  /\ opened = FALSE
  /\ lock = Nobody
  /\ temperature = 0 /\ humidity = 0 /\ data = <<0, 0>>
  /\ measured = 0
  /\ pc = [t \in Threads |-> "idle"]
  /\ newest = [t \in Threads |-> 0]
  /\ stored = [t \in Threads |-> FALSE]
  /\ out = [t \in Threads |-> <<0, 0>>]

Goes(t, from, to) == opened /\ pc[t] = from /\ pc' = [pc EXCEPT ![t] = to]

\* open probes until the sensor answers; statics keep what the last user read.
Open ==
  /\ ~opened /\ opened' = TRUE
  /\ UNCHANGED <<lock, temperature, humidity, data, measured, pc, newest, stored, out>>

\* The last thread is gone.
Release ==
  /\ opened /\ \A t \in Threads : pc[t] = "idle"
  /\ opened' = FALSE
  /\ UNCHANGED <<lock, temperature, humidity, data, measured, pc, newest, stored, out>>

Lock(t) ==
  /\ Goes(t, "idle", "locked")
  /\ lock = Nobody /\ lock' = t
  /\ UNCHANGED <<opened, temperature, humidity, data, measured, newest, stored, out>>

\* Mutant: the temperature is stored before the checksum is compared.
Measure_Unchecked(t) ==
  /\ Goes(t, "locked", "measured")
  /\ \/ /\ measured < Samples
        /\ measured' = measured + 1
        /\ temperature' = measured' /\ humidity' \in {humidity, measured'}
     \/ UNCHANGED <<measured, temperature, humidity>>
  /\ UNCHANGED <<opened, lock, data, newest, stored, out>>

\* DHT11_Read_Data: both values, or neither; its result is dropped.
Measure(t) ==
  /\ Goes(t, "locked", "measured")
  /\ \/ /\ measured < Samples
        /\ measured' = measured + 1
        /\ temperature' = measured' /\ humidity' = measured'
     \/ UNCHANGED <<measured, temperature, humidity>>
  /\ UNCHANGED <<opened, lock, data, newest, stored, out>>

Stores(t, i, v) ==
  /\ data' = [data EXCEPT ![i] = v]
  /\ stored' = [u \in Threads |-> u # t /\ (stored[u] \/ pc[u] \in {"copy", "copied"})]

StoreTemperature(t) ==
  /\ Goes(t, "measured", "stored")
  /\ Stores(t, 1, temperature)
  /\ UNCHANGED <<opened, lock, temperature, humidity, measured, newest, out>>

\* spin_unlock follows.
StoreHumidity(t) ==
  /\ Goes(t, "stored", "copy")
  /\ Stores(t, 2, humidity)
  /\ newest' = [newest EXCEPT ![t] = measured]
  /\ lock' = Nobody
  /\ UNCHANGED <<opened, temperature, humidity, measured, out>>

\* copy_to_user, byte by byte.
Copy(t, i, from, to) ==
  /\ Goes(t, from, to)
  /\ out' = [out EXCEPT ![t][i] = data[i]]
  /\ UNCHANGED <<opened, lock, temperature, humidity, data, measured, newest, stored>>

Return(t) ==
  /\ Goes(t, "done", "idle")
  /\ UNCHANGED <<opened, lock, temperature, humidity, data, measured, newest, stored, out>>

Next ==
  \/ Open \/ Release
  \/ \E t \in Threads :
       \/ Lock(t) \/ Measure(t) \/ StoreTemperature(t) \/ StoreHumidity(t)
       \/ Copy(t, 1, "copy", "copied") \/ Copy(t, 2, "copied", "done") \/ Return(t)

Spec == Init /\ [][Next]_vars

-----------------------------------------------------------------------------
Steps == {"idle", "locked", "measured", "stored", "copy", "copied", "done"}

TypeOK ==
  LET Numbers == 0 .. Samples IN
  /\ opened \in BOOLEAN /\ lock \in Threads \cup {Nobody}
  /\ {temperature, humidity, measured} \subseteq Numbers /\ data \in Numbers \X Numbers
  /\ pc \in [Threads -> Steps] /\ newest \in [Threads -> Numbers]
  /\ stored \in [Threads -> BOOLEAN] /\ out \in [Threads -> Numbers \X Numbers]

(* The two bytes a read returns are those of the newest measurement there  *)
(* was when it gave the lock back, both of it, unless another thread       *)
(* stored in between; and then neither is older.                           *)
ReadIsNewest ==
  \A t \in Threads : pc[t] = "done" =>
    /\ \A i \in {1, 2} : out[t][i] >= newest[t]
    /\ ~stored[t] => out[t] = <<newest[t], newest[t]>>
==============================================================================
