-------------------------- MODULE WeightReadProofs ---------------------------
(***************************************************************************)
(* Proofs about WeightRead, for any threads, sensors and samples.          *)
(*                                                                         *)
(* FreshWeight speaks of a result that another thread may have replaced    *)
(* since.  The invariant follows the replacement back to its first sample: *)
(* the thread that took it held the mutex, so whoever was past its own     *)
(* Unlock by then was still in its call.                                   *)
(***************************************************************************)
EXTENDS WeightRead, TLAPS

(* The threads in the critical section and the mutex agree.                *)
Holders ==
  \A t \in Threads : pc[t] \in {"sample", "unlock"} <=> mutex = t

(* The first sample is early enough for its thread and for everybody who   *)
(* waits to copy a result of the same sensor.                              *)
EarlyEnough ==
  \A t \in Threads : pc[t] = "sample" /\ count > 0 =>
    /\ t \in early
    /\ \A u \in Threads : pc[u] = "copy" /\ on[u] = on[t] => u \in early

(* From Store on a thread's result is fresh.                               *)
StoredIsFresh ==
  \A t \in Threads : pc[t] \in {"unlock", "copy"} =>
    data[on[t]].of = on[t] /\ t \in data[on[t]].early

IInv == TypeOK /\ Holders /\ EarlyEnough /\ StoredIsFresh

LEMMA InitInductive == Init => IInv
BY ConstantsOK
DEF Init, IInv, TypeOK, Weights, Holders, EarlyEnough, StoredIsFresh

(* The steps of the converters touch nothing the invariant speaks of but   *)
(* their own types.                                                        *)
LEMMA ConverterStep ==
  ASSUME IInv, NEW s \in Sensors, Convert(s) \/ Plug(s)
  PROVE  IInv'
<1> USE DEF IInv, TypeOK
<1>1. UNCHANGED <<mutex, data, pc, on, count, early>>
  BY DEF Convert, Plug
<1>2. TypeOK'  BY <1>1 DEF Convert, Plug
<1>3. Holders' /\ EarlyEnough' /\ StoredIsFresh'
  BY <1>1 DEF Holders, EarlyEnough, StoredIsFresh
<1> QED  BY <1>2, <1>3

LEMMA CallStep ==
  ASSUME IInv, NEW t \in Threads, NEW s \in Sensors, Call(t, s)
  PROVE  IInv'
<1> USE DEF IInv, TypeOK, Call, Goes
<1>1. TypeOK'  BY DEF Weights, converters
<1>2. Holders'  BY DEF Holders
<1>3. EarlyEnough'  BY DEF EarlyEnough
<1>4. StoredIsFresh'
  <2> SUFFICES ASSUME NEW u \in Threads, pc'[u] \in {"unlock", "copy"}
               PROVE  data'[on'[u]].of = on'[u] /\ u \in data'[on'[u]].early
    BY DEF StoredIsFresh
  <2>1. u # t /\ on'[u] = on[u] /\ pc'[u] = pc[u]
    OBVIOUS
  <2>2. data[on[u]].of = on[u] /\ u \in data[on[u]].early
    BY <2>1 DEF StoredIsFresh
  <2>3. data'[on[u]] = [data[on[u]] EXCEPT !.early = @ \ {t}]
    OBVIOUS
  <2> QED  BY <2>1, <2>2, <2>3 DEF Weights
<1> QED  BY <1>1, <1>2, <1>3, <1>4

LEMMA LockStep ==
  ASSUME IInv, NEW t \in Threads, Lock(t)
  PROVE  IInv'
<1> USE ConstantsOK DEF IInv, TypeOK, Lock, Goes
<1>1. TypeOK'  BY DEF converters
<1>2. Holders'  BY DEF Holders
<1>3. EarlyEnough'  BY DEF EarlyEnough, Holders
<1>4. StoredIsFresh'  BY DEF StoredIsFresh
<1> QED  BY <1>1, <1>2, <1>3, <1>4

LEMMA SampleStep ==
  ASSUME IInv, NEW t \in Threads, Sample(t)
  PROVE  IInv'
<1> USE ConstantsOK DEF IInv, TypeOK, Sample
<1>1. TypeOK'
  <2>1. count' \in 0 .. Samples  OBVIOUS
  <2>2. early' \in SUBSET Threads  OBVIOUS
  <2> QED  BY <2>1, <2>2
<1>2. Holders'  BY DEF Holders
<1>3. EarlyEnough'
  <2>1. \A u \in Threads : pc[u] = "sample" => u = t
    BY DEF Holders
  <2>2. CASE count = 0
    BY <2>1, <2>2 DEF EarlyEnough
  <2>3. CASE count # 0
    <3>1. count > 0 /\ early' = early  BY <2>3
    <3> QED  BY <2>1, <3>1 DEF EarlyEnough
  <2> QED  BY <2>2, <2>3
<1>4. StoredIsFresh'  BY DEF StoredIsFresh
<1> QED  BY <1>1, <1>2, <1>3, <1>4

LEMMA StoreStep ==
  ASSUME IInv, NEW t \in Threads, Store(t)
  PROVE  IInv'
<1> USE ConstantsOK DEF IInv, TypeOK, Store, Goes
<1>1. TypeOK'  BY DEF Weights, converters
<1>2. Holders'  BY DEF Holders
<1>3. \A u \in Threads : pc[u] \in {"sample", "unlock"} => u = t
  BY DEF Holders
<1>4. EarlyEnough'  BY <1>3 DEF EarlyEnough
<1>5. StoredIsFresh'
  <2> SUFFICES ASSUME NEW u \in Threads, pc'[u] \in {"unlock", "copy"}
               PROVE  data'[on[u]].of = on[u] /\ u \in data'[on[u]].early
    BY DEF StoredIsFresh
  <2>1. u = t \/ pc[u] = "copy"
    BY <1>3
  <2>2. CASE on[u] = on[t]
    <3>1. data'[on[u]] = [of |-> on[t], early |-> early]
      BY <2>2
    <3>2. u \in early
      BY <2>1, <2>2 DEF EarlyEnough
    <3> QED  BY <2>2, <3>1, <3>2
  <2>3. CASE on[u] # on[t]
    <3>1. data'[on[u]] = data[on[u]] /\ u # t  BY <2>3
    <3> QED  BY <2>1, <3>1 DEF StoredIsFresh
  <2> QED  BY <2>2, <2>3
<1> QED  BY <1>1, <1>2, <1>4, <1>5

LEMMA UnlockStep ==
  ASSUME IInv, NEW t \in Threads, Unlock(t)
  PROVE  IInv'
<1> USE ConstantsOK DEF IInv, TypeOK, Unlock, Goes
<1>1. TypeOK'  BY DEF converters
<1>2. Holders'  BY DEF Holders
<1>3. EarlyEnough'  BY DEF EarlyEnough, Holders
<1>4. StoredIsFresh'  BY DEF StoredIsFresh
<1> QED  BY <1>1, <1>2, <1>3, <1>4

LEMMA CopyStep ==
  ASSUME IInv, NEW t \in Threads, Copy(t)
  PROVE  IInv'
<1> USE ConstantsOK DEF IInv, TypeOK, Copy, Goes
<1>1. TypeOK'  BY DEF converters
<1>2. Holders'  BY DEF Holders
<1>3. EarlyEnough'  BY DEF EarlyEnough
<1>4. StoredIsFresh'  BY DEF StoredIsFresh
<1> QED  BY <1>1, <1>2, <1>3, <1>4

LEMMA StepInductive == IInv /\ [Next]_vars => IInv'
<1> SUFFICES ASSUME IInv, [Next]_vars PROVE IInv'
  OBVIOUS
<1>1. CASE \E s \in Sensors : Convert(s) \/ Plug(s)
  BY <1>1, ConverterStep
<1>2. CASE \E t \in Threads : \E s \in Sensors : Call(t, s)
  BY <1>2, CallStep
<1>3. CASE \E t \in Threads : Reads(t)
  BY <1>3, LockStep, SampleStep, StoreStep, UnlockStep, CopyStep DEF Reads
<1>4. CASE UNCHANGED vars
  BY <1>4
  DEF vars, converters, IInv, TypeOK, Weights, Holders, EarlyEnough, StoredIsFresh
<1> QED  BY <1>1, <1>2, <1>3, <1>4 DEF Next

LEMMA Inductive == Spec => []IInv
BY InitInductive, StepInductive, PTL DEF Spec

(* The reads keep the types of what they share.                            *)
THEOREM TypeCorrect == Spec => []TypeOK
<1>1. IInv => TypeOK  BY DEF IInv
<1> QED  BY <1>1, Inductive, PTL

(* weight_read hands out a weight of its own sensor, sampled during the    *)
(* call, although the result is copied after the mutex is given back.      *)
THEOREM ReadsAreFresh == Spec => []FreshWeight
<1>1. IInv => FreshWeight  BY DEF IInv, StoredIsFresh, FreshWeight
<1> QED  BY <1>1, Inductive, PTL

(* weight_mutex: one thread at a time clocks the converters.               *)
THEOREM OneClock == Spec => []AloneOnTheWire
<1>1. IInv => AloneOnTheWire  BY DEF IInv, Holders, AloneOnTheWire
<1> QED  BY <1>1, Inductive, PTL
==============================================================================
