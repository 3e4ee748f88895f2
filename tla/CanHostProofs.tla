---------------------------- MODULE CanHostProofs ----------------------------
(***************************************************************************)
(* What holds of the programs on the CAN bus for any number of them, any   *)
(* scripts that keep ScriptsOK, and any sizes of the queues.               *)
(***************************************************************************)
EXTENDS CanHost, TLAPS

\* A socket costs one descriptor, and every abandoned one another.
IInv == TypeOK /\ LeaksAreFailures

LEMMA Scripted ==
  ASSUME prog \in Pairings, NEW h \in Hosts, NEW p \in DOMAIN Script[prog[h]].at
  PROVE  /\ Request(h, p) \in Requests(DOMAIN Script[prog[h]].at \cup {End})
         /\ OneSocketAtATime(Script[prog[h]], Request(h, p))
         /\ FilterPassesAnswer(Request(h, p))
         /\ p # End
<1>1. prog[h] \in DOMAIN Script
  BY ScriptsOK
<1> QED
  BY <1>1, ScriptsOK DEF Request

\* Where a program is after its round.
Left(h, places, closes, rest) ==
  /\ prog' = prog
  /\ at' \in [Hosts -> Positions]
  /\ \A g \in Hosts : at'[g] \in DOMAIN Script[prog[g]].at \cup {End}
  /\ pc' \in [Hosts -> Places] /\ \A g \in Hosts : pc'[g] = "end" <=> at'[g] = End
  /\ fds' \in [Hosts -> Nat] /\ \A g \in Hosts : fds'[g] <= MaxFds[g]
  /\ queue' \in [Hosts -> Seq(Frames)]
  /\ \A g \in Hosts \ {h} :
       at'[g] = at[g] /\ pc'[g] = pc[g] /\ fds'[g] = fds[g] /\ queue'[g] = queue[g]
  /\ at'[h] \in places
  /\ at'[h] # End =>
       /\ pc'[h] = IF Request(h, at'[h]).opens THEN "next" ELSE "ready"
       /\ fds'[h] = IF closes THEN fds[h] - 1 ELSE fds[h]
       /\ queue'[h] = IF pc'[h] = "ready" THEN rest ELSE <<>>

LEMMA LeaveEffect ==
  ASSUME TypeOK, NEW h \in Hosts, NEW places \in SUBSET (DOMAIN Script[prog[h]].at \cup {End}),
         NEW closes \in BOOLEAN, NEW rest \in Seq(Frames),
         closes => fds[h] > 0,
         Leave(h, places, closes, rest)
  PROVE  Left(h, places, closes, rest)
<1>1. PICK p \in places :
        /\ at' = [at EXCEPT ![h] = p]
        /\ pc' = [pc EXCEPT ![h] = IF p = End THEN "end"
                                   ELSE IF Request(h, p).opens THEN "next" ELSE "ready"]
        /\ fds' = [fds EXCEPT ![h] = IF p = End THEN 0 ELSE IF closes THEN @ - 1 ELSE @]
        /\ queue' = [queue EXCEPT ![h] = IF pc'[h] = "ready" THEN rest ELSE <<>>]
        /\ UNCHANGED prog
  BY DEF Leave
<1>2. p # End => p \in DOMAIN Script[prog[h]].at
  OBVIOUS
<1>2a. p \in Positions
  <2>1. prog[h] \in DOMAIN Script
    BY ScriptsOK DEF TypeOK
  <2>2. DOMAIN Script[prog[h]].at \in {DOMAIN Script[g].at : g \in DOMAIN Script}
    BY <2>1
  <2> QED
    BY <1>2, <2>2 DEF Positions
<1>3. pc' \in [Hosts -> Places]
  BY <1>1 DEF TypeOK, Places
<1>3a. /\ fds' \in [Hosts -> Nat] /\ \A g \in Hosts \ {h} : fds'[g] = fds[g]
       /\ fds'[h] = IF p = End THEN 0 ELSE IF closes THEN fds[h] - 1 ELSE fds[h]
  BY <1>1 DEF TypeOK
<1>3b. \A g \in Hosts : fds'[g] <= MaxFds[g]
  <2>1. fds'[h] <= MaxFds[h]
    BY <1>3a, SizesOK DEF TypeOK
  <2>2. \A g \in Hosts \ {h} : fds'[g] <= MaxFds[g]
    BY <1>3a DEF TypeOK
  <2> QED
    BY <2>1, <2>2
<1>4. queue' \in [Hosts -> Seq(Frames)]
  BY <1>1 DEF TypeOK
<1>5. at' \in [Hosts -> Positions] /\ at'[h] = p /\ \A g \in Hosts \ {h} : at'[g] = at[g]
  BY <1>1, <1>2a DEF TypeOK
<1> QED
  BY <1>1, <1>2, <1>3, <1>3a, <1>3b, <1>4, <1>5 DEF TypeOK, Places, Left

LEMMA ForgetSeq ==
  ASSUME NEW s \in Seq(Asked), NEW h \in Hosts
  PROVE  /\ Forget(s, h) \in Seq(Asked) /\ Len(Forget(s, h)) = Len(s)
         /\ \A i \in 1 .. Len(s) :
              Forget(s, h)[i] = IF s[i].by = h THEN [s[i] EXCEPT !.by = Nobody] ELSE s[i]
<1>1. DOMAIN s = 1 .. Len(s) /\ Len(s) \in Nat /\ \A i \in 1 .. Len(s) : s[i] \in Asked
  OBVIOUS
<1>2. \A m \in Asked : [m EXCEPT !.by = Nobody] \in Asked
  BY DEF Asked
<1>3. \A i \in 1 .. Len(s) :
        (IF s[i].by = h THEN [s[i] EXCEPT !.by = Nobody] ELSE s[i]) \in Asked
  BY <1>1, <1>2
<1>4. Forget(s, h) = [i \in 1 .. Len(s) |->
                        IF s[i].by = h THEN [s[i] EXCEPT !.by = Nobody] ELSE s[i]]
  BY <1>1 DEF Forget
<1> HIDE DEF Forget
<1> QED
  BY <1>1, <1>3, <1>4

LEMMA DeliverType ==
  ASSUME TypeOK, NEW to,
         NEW f \in [id : Int, cmd : STRING, tag : Int, reply : BOOLEAN],
         Deliver(f, to)
  PROVE  queue' \in [Hosts -> Seq(Frames)]
<1>1. ASSUME NEW h \in Hosts
      PROVE  [id |-> f.id, cmd |-> f.cmd, tag |-> f.tag, reply |-> f.reply,
              early |-> pc[h] = "bound"] \in Frames
  BY DEF Frames
<1>2. \A h \in Hosts : queue[h] \in Seq(Frames)
  BY DEF TypeOK
<1> QED
  BY <1>1, <1>2 DEF Deliver

\* Whatever a program does, its scripts and its descriptors stay in order.
LEMMA StepInv ==
  ASSUME IInv, NEW h \in Hosts, Step(h) \/ BindFails(h) \/ SelectFails(h) \/ ReadFails(h)
  PROVE  IInv'
<1> DEFINE r == Req(h)  script == Script[prog[h]]  positions == DOMAIN script.at \cup {End}
<1> USE DEF IInv
<1>0. pc[h] # "end" => /\ at[h] \in DOMAIN script.at
                       /\ r \in Requests(positions)
                       /\ OneSocketAtATime(script, r)
  BY Scripted DEF TypeOK, Req
<1>0a. pc[h] \in {"opened", "bound", "ready", "wait"} => fds[h] = failed[h] + 1 /\ fds[h] > 0
  BY DEF TypeOK, LeaksAreFailures, HasSocket
<1>0b. pc[h] = "next" => fds[h] = failed[h]
  <2>1. ASSUME pc[h] = "next" PROVE at[h] # End /\ ~HasSocket(h)
    BY <2>1 DEF TypeOK, HasSocket
  <2> QED
    BY <2>1 DEF TypeOK, LeaksAreFailures
<1>1. CASE Socket(h)
  <2>1. tx' \in Seq(Asked) /\ Len(tx') <= TxLen
    BY <1>1, ForgetSeq DEF Socket, TypeOK
  <2>2. owed' \in [Nodes -> Seq(Asked)]
    BY <1>1, ForgetSeq DEF Socket, TypeOK
  <2>2a. fds' \in [Hosts -> Nat] /\ \A g \in Hosts : fds'[g] <= MaxFds[g]
    <3>1. /\ fds' \in [Hosts -> Nat] /\ fds'[h] = fds[h] + 1
          /\ \A g \in Hosts \ {h} : fds'[g] = fds[g]
      BY <1>1 DEF Socket, TypeOK
    <3>2. MaxFds[h] \in Nat /\ fds[h] \in Nat /\ fds[h] < MaxFds[h]
      BY <1>1, SizesOK DEF Socket, TypeOK
    <3>3. fds'[h] <= MaxFds[h]
      BY <3>1, <3>2
    <3>4. \A g \in Hosts \ {h} : fds'[g] <= MaxFds[g]
      BY <3>1 DEF TypeOK
    <3> QED
      BY <3>1, <3>3, <3>4
  <2>2b. pc' \in [Hosts -> Places] /\ \A g \in Hosts : pc'[g] = "end" <=> at'[g] = End
    BY <1>1 DEF Socket, TypeOK, Places
  <2>2c. watching' \in [Hosts -> BOOLEAN] /\ missed' \subseteq Hosts
    BY <1>1 DEF Socket, TypeOK
  <2>3. TypeOK'
    BY <1>1, <2>1, <2>2, <2>2a, <2>2b, <2>2c DEF Socket, TypeOK
  <2>4. LeaksAreFailures'
    BY <1>1, <1>0b DEF Socket, TypeOK, LeaksAreFailures, HasSocket
  <2> QED
    BY <2>3, <2>4
<1>3. CASE Bind(h) \/ Filter(h) \/ Listen(h)
  BY <1>3, <1>0a DEF Bind, Filter, Listen, Stay, TypeOK, Places, LeaksAreFailures, HasSocket
<1>4. ASSUME NEW places \in SUBSET positions, NEW closes \in BOOLEAN,
             NEW rest \in Seq(Frames), pc[h] \in {"next", "ready", "wait"},
             closes => pc[h] # "next",
             closes \/ pc[h] = "next" => \A p \in places \ {End} : script.at[p].opens,
             ~closes /\ pc[h] # "next" => \A p \in places \ {End} : ~script.at[p].opens,
             Leave(h, places, closes, rest),
             UNCHANGED failed, watching' \in [Hosts -> BOOLEAN],
             tx' \in Seq(Asked), Len(tx') <= TxLen,
             owed' \in [Nodes -> Seq(Asked)], missed' \subseteq Hosts
      PROVE  IInv'
  <2>1. closes => fds[h] > 0
    BY <1>4, <1>0a
  <2>1a. Left(h, places, closes, rest)
    BY <1>4, <2>1, LeaveEffect
  <2>2. TypeOK'
    BY <1>4, <2>1a DEF TypeOK, Left
  <2>3. at'[h] # End => fds'[h] = failed'[h] + (IF HasSocket(h)' THEN 1 ELSE 0)
    <3>1. CASE closes \/ pc[h] = "next"
      <4>1. at'[h] # End => pc'[h] = "next"
        BY <1>4, <2>1a, <3>1 DEF Left, Request
      <4> QED
        BY <1>4, <2>1a, <3>1, <4>1, <1>0a, <1>0b DEF Left, HasSocket, TypeOK
    <3>2. CASE ~closes /\ pc[h] # "next"
      <4>1. at'[h] # End => pc'[h] = "ready"
        BY <1>4, <2>1a, <3>2 DEF Left, Request
      <4> QED
        BY <1>4, <2>1a, <3>2, <4>1, <1>0a DEF Left, HasSocket, TypeOK
    <3> QED
      BY <3>1, <3>2
  <2>4. \A g \in Hosts \ {h} :
          at'[g] # End => fds'[g] = failed'[g] + (IF HasSocket(g)' THEN 1 ELSE 0)
    BY <1>4, <2>1a DEF Left, HasSocket, LeaksAreFailures
  <2>5. LeaksAreFailures'
    BY <2>3, <2>4 DEF LeaksAreFailures
  <2> QED
    BY <2>2, <2>5
<1>5. ASSUME NEW places \in SUBSET positions, pc[h] \in {"opened", "ready", "wait"},
             \A p \in places \ {End} : script.at[p].opens,
             Leave(h, places, FALSE, <<>>), Abandon(h),
             UNCHANGED <<watching, tx, owed, missed>>
      PROVE  IInv'
  <2>1. failed[h] + 1 <= MaxFds[h]
    BY <1>5, <1>0a, SizesOK DEF TypeOK
  <2>2. <<>> \in Seq(Frames)
    OBVIOUS
  <2>2a. Left(h, places, FALSE, <<>>)
    BY <1>5, <2>2, LeaveEffect
  <2>2b. failed' \in [Hosts -> Nat] /\ \A g \in Hosts : failed'[g] <= MaxFds[g]
    BY <1>5, <2>1, SizesOK DEF TypeOK, Abandon
  <2>3. TypeOK'
    BY <1>5, <2>2a, <2>2b DEF TypeOK, Left
  <2>4. LeaksAreFailures'
    BY <1>5, <2>2a, <1>0a DEF TypeOK, LeaksAreFailures, HasSocket, Request, Abandon, Left
  <2> QED
    BY <2>3, <2>4
<1>2. CASE NoDescriptor(h)
  <2>1. <<>> \in Seq(Frames)
    OBVIOUS
  <2> QED
    BY <1>2, <2>1, <1>0, <1>4 DEF NoDescriptor, OneSocketAtATime, Requests, TypeOK
<1>5a. ASSUME pc[h] # "end"
       PROVE  /\ r.closes \in BOOLEAN
              /\ r.closes => \A p \in (r.then \cup r.late) \ {End} : script.at[p].opens
              /\ ~r.closes => \A p \in (r.then \cup r.late) \ {End} : ~script.at[p].opens
              /\ r.then \in SUBSET positions /\ r.late \in SUBSET positions
  BY <1>5a, <1>0 DEF OneSocketAtATime, Requests
<1>6. Tail(queue[h]) \in Seq(Frames) \/ queue[h] = <<>>
  BY DEF TypeOK
<1>7. CASE Read(h)
  <2>1. pc[h] = "wait" /\ Leave(h, r.then, r.closes, Tail(queue[h]))
        /\ UNCHANGED <<watching, tx, owed, missed, failed>>
    BY <1>7 DEF Read
  <2>2. Tail(queue[h]) \in Seq(Frames)
    BY <1>7, <1>6 DEF Read, Readable
  <2> HIDE DEF r, script, positions
  <2> QED
    BY <2>1, <2>2, <1>5a, <1>4 DEF TypeOK
<1>8. CASE Timeout(h) \/ SelectFails(h)
  <2>1. queue[h] \in Seq(Frames) /\ watching' \in [Hosts -> BOOLEAN]
    BY <1>8 DEF TypeOK, Timeout, SelectFails
  <2>2. /\ pc[h] = "wait"
        /\ \/ Leave(h, r.then, r.closes, queue[h]) \/ Leave(h, r.late, r.closes, queue[h])
        /\ UNCHANGED <<tx, owed, missed, failed>>
    BY <1>8 DEF Timeout, SelectFails
  <2> HIDE DEF r, script, positions
  <2> QED
    BY <2>1, <2>2, <1>5a, <1>4 DEF TypeOK
<1>9. CASE ReadFails(h) \/ BindFails(h)
  BY <1>9, <1>0, <1>5 DEF ReadFails, BindFails, OneSocketAtATime, Requests, TypeOK
<1>10. ASSUME pc[h] = "ready", Sent(h), UNCHANGED <<watching, failed>>,
              tx' \in Seq(Asked), Len(tx') <= TxLen,
              owed' \in [Nodes -> Seq(Asked)], missed' \subseteq Hosts
       PROVE  IInv'
  <2>1. CASE r.reads = "never"
    <3>1. queue[h] \in Seq(Frames) /\ watching' \in [Hosts -> BOOLEAN]
      BY <1>10 DEF TypeOK
    <3>2. Leave(h, r.then, r.closes, queue[h])
      BY <1>10, <2>1 DEF Sent
    <3> HIDE DEF r, script, positions
    <3> QED
      BY <1>10, <3>1, <3>2, <1>5a, <1>4
  <2>2. CASE r.reads # "never"
    <3>1. Stay(h, "wait")
      BY <1>10, <2>2 DEF Sent
    <3>2. TypeOK'
      BY <1>10, <3>1 DEF Stay, TypeOK, Places
    <3>3. LeaksAreFailures'
      BY <1>10, <3>1, <1>0a DEF Stay, TypeOK, LeaksAreFailures, HasSocket
    <3> QED
      BY <3>2, <3>3
  <2> QED
    BY <2>1, <2>2
<1>11. CASE Write(h)
  <2> DEFINE m == [id |-> r.id, cmd |-> r.cmd, from |-> r.from, by |-> h]
  <2>1. m \in Asked
    BY <1>11, <1>0 DEF Write, Requests, Asked
  <2>2. tx' = Append(tx, m) /\ Len(tx) < TxLen
    BY <1>11 DEF Write
  <2>3. tx' \in Seq(Asked) /\ Len(tx') <= TxLen
    <3> HIDE DEF m
    <3> QED
      BY <2>1, <2>2, SizesOK DEF TypeOK
  <2> QED
    BY <1>11, <2>3, <1>10 DEF Write, TypeOK
<1>12. CASE WriteFails(h)
  <2>1. CASE r.anyway
    BY <1>12, <2>1, <1>10 DEF WriteFails, TypeOK
  <2>2. CASE ~r.anyway
    BY <1>12, <2>2, <1>0, <1>5 DEF WriteFails, OneSocketAtATime, Requests, TypeOK
  <2> QED
    BY <2>1, <2>2
<1> QED
  BY <1>1, <1>2, <1>3, <1>7, <1>8, <1>9, <1>11, <1>12 DEF Step

\* The bus and the nodes move frames and nothing else.
LEMMA BusInv ==
  ASSUME IInv, Send \/ \E n \in Nodes : Answer(n) \/ Lose(n)
  PROVE  IInv'
<1> USE DEF IInv
<1>1. CASE Send
  <2> DEFINE m == Head(tx)  f == [id |-> m.id, cmd |-> m.cmd, tag |-> 0, reply |-> FALSE]
  <2>1. m \in Asked /\ Tail(tx) \in Seq(Asked) /\ Len(Tail(tx)) <= TxLen
    BY <1>1, SizesOK DEF Send, TypeOK
  <2>2. f \in [id : Int, cmd : STRING, tag : Int, reply : BOOLEAN]
    BY <2>1 DEF Asked
  <2>3. Deliver(f, Hosts \ {m.by})
    BY <1>1 DEF Send
  <2>4. queue' \in [Hosts -> Seq(Frames)]
    <3> HIDE DEF f, m
    <3> QED
      BY <2>2, <2>3, DeliverType
  <2>5. owed' \in [Nodes -> Seq(Asked)] /\ missed' \subseteq Hosts
    <3>1. \/ m.id \in Nodes /\ owed' = [owed EXCEPT ![m.id] = Append(@, m)] /\ missed' = missed
          \/ owed' = owed /\ missed' = missed \cup ({m.by} \cap Hosts)
      BY <1>1 DEF Send
    <3> HIDE DEF m
    <3>2. ASSUME m.id \in Nodes PROVE Append(owed[m.id], m) \in Seq(Asked)
      BY <2>1, <3>2 DEF TypeOK
    <3>3. missed' \subseteq Hosts
      BY <3>1 DEF TypeOK
    <3> QED
      BY <3>1, <3>2, <3>3 DEF TypeOK
  <2>6. TypeOK'
    BY <1>1, <2>1, <2>4, <2>5 DEF Send, TypeOK
  <2>7. LeaksAreFailures'
    BY <1>1 DEF Send, LeaksAreFailures, HasSocket
  <2> QED
    BY <2>6, <2>7
<1>2. ASSUME NEW n \in Nodes, Answer(n) PROVE IInv'
  <2> DEFINE m == Head(owed[n])
  <2>0. PICK cmd \in {m.cmd, Short} :
          Deliver([id |-> m.from, cmd |-> cmd, tag |-> m.from, reply |-> TRUE], Hosts)
    BY <1>2 DEF Answer
  <2> DEFINE f == [id |-> m.from, cmd |-> cmd, tag |-> m.from, reply |-> TRUE]
  <2>1. m \in Asked /\ owed' \in [Nodes -> Seq(Asked)]
    BY <1>2 DEF Answer, TypeOK
  <2>2. f \in [id : Int, cmd : STRING, tag : Int, reply : BOOLEAN]
    <3>1. m.cmd \in STRING /\ m.from \in Int
      BY <2>1 DEF Asked
    <3>2. Short \in STRING
      BY SizesOK
    <3> HIDE DEF m
    <3> QED
      BY <2>0, <3>1, <3>2
  <2>3. Deliver(f, Hosts)
    BY <2>0
  <2>4. queue' \in [Hosts -> Seq(Frames)]
    <3> HIDE DEF f, m
    <3> QED
      BY <2>2, <2>3, DeliverType
  <2>6. TypeOK'
    BY <1>2, <2>1, <2>4 DEF Answer, TypeOK
  <2>7. LeaksAreFailures'
    BY <1>2 DEF Answer, LeaksAreFailures, HasSocket
  <2> QED
    BY <2>6, <2>7
<1>3. ASSUME NEW n \in Nodes, Lose(n) PROVE IInv'
  <2>1. owed' \in [Nodes -> Seq(Asked)] /\ missed' \subseteq Hosts
    BY <1>3 DEF Lose, TypeOK
  <2> QED
    BY <1>3, <2>1 DEF Lose, host, TypeOK, LeaksAreFailures, HasSocket
<1> QED
  BY <1>1, <1>2, <1>3

LEMMA InitInv == Init => IInv
<1> SUFFICES ASSUME Init PROVE IInv
  OBVIOUS
<1>1. prog \in [Hosts -> DOMAIN Script]
  BY ScriptsOK DEF Init
<1>2. \A h \in Hosts : at[h] \in DOMAIN Script[prog[h]].at /\ at[h] # End /\ at[h] \in Positions
  BY <1>1, ScriptsOK DEF Init, Positions
<1>3. TypeOK
  BY <1>1, <1>2, SizesOK DEF Init, TypeOK, Places
<1>4. LeaksAreFailures
  BY DEF Init, LeaksAreFailures, HasSocket
<1> QED
  BY <1>3, <1>4 DEF IInv

LEMMA NextInv == IInv /\ [Next]_vars => IInv'
<1> SUFFICES ASSUME IInv, [Next]_vars PROVE IInv'
  OBVIOUS
<1>1. CASE UNCHANGED vars
  BY <1>1 DEF vars, host, IInv, TypeOK, LeaksAreFailures, HasSocket
<1> QED
  BY <1>1, StepInv, BusInv DEF Next

LEMMA InvHolds == Spec => []IInv
BY InitInv, NextInv, PTL DEF Spec

(* Whatever programs run together, with however many descriptors and       *)
(* queues of any size, every program is at a position of its own script.   *)
THEOREM TypeCorrect == Spec => []TypeOK
<1>1. IInv => TypeOK
  BY DEF IInv
<1> QED
  BY <1>1, InvHolds, PTL

(* A program of can/socketcan has open the socket in use and one for every *)
(* ioctl, bind, write or read that failed and that it went on from: rounds *)
(* that succeed leak nothing, and a program runs out of descriptors only   *)
(* after that many failures.                                               *)
THEOREM OnlyFailuresLeak == Spec => []LeaksAreFailures
<1>1. IInv => LeaksAreFailures
  BY DEF IInv
<1> QED
  BY <1>1, InvHolds, PTL
-----------------------------------------------------------------------------
(* What a host that waits without end can still hope for: the identifiers  *)
(* the answers to its requests in flight will bear.                        *)
FromIn(s, h) == {s[i].from : i \in {j \in DOMAIN s : s[j].by = h}}

From(h) == FromIn(tx, h) \cup UNION {FromIn(owed[n], h) : n \in Nodes}

Waits(h) == pc[h] = "wait" /\ Req(h).reads = "ever" /\ Req(h).asks /\ queue[h] = <<>>

\* Its filter passes all of them, and there is one unless something was lost.
Hopes(h) ==
  /\ HasSocket(h) /\ Req(h).reads = "ever" => From(h) \subseteq Req(h).passes
  /\ Waits(h) => From(h) # {} \/ h \in missed

WInv == IInv /\ \A h \in Hosts : Hopes(h)

LEMMA AppendFrom ==
  ASSUME NEW s \in Seq(Asked), NEW m \in Asked, NEW h
  PROVE  FromIn(Append(s, m), h) = FromIn(s, h) \cup (IF m.by = h THEN {m.from} ELSE {})
<1>1. /\ DOMAIN s = 1 .. Len(s) /\ Len(s) \in Nat
      /\ DOMAIN Append(s, m) = 1 .. Len(s) + 1
      /\ \A i \in 1 .. Len(s) : Append(s, m)[i] = s[i]
      /\ Append(s, m)[Len(s) + 1] = m
  OBVIOUS
<1>2. 1 .. Len(s) + 1 = (1 .. Len(s)) \cup {Len(s) + 1}
  BY <1>1
<1> QED
  BY <1>1, <1>2 DEF FromIn

LEMMA TailFrom ==
  ASSUME NEW s \in Seq(Asked), s # <<>>, NEW h
  PROVE  /\ FromIn(s, h) = FromIn(Tail(s), h) \cup (IF Head(s).by = h THEN {Head(s).from} ELSE {})
         /\ Head(s) \in Asked /\ Tail(s) \in Seq(Asked)
<1>1. /\ DOMAIN s = 1 .. Len(s) /\ Len(s) \in Nat \ {0} /\ Head(s) = s[1]
      /\ DOMAIN Tail(s) = 1 .. Len(s) - 1
      /\ \A i \in 1 .. Len(s) - 1 : Tail(s)[i] = s[i + 1]
      /\ Head(s) \in Asked /\ Tail(s) \in Seq(Asked)
  OBVIOUS
<1>2. ASSUME NEW x \in FromIn(s, h)
      PROVE  x \in FromIn(Tail(s), h) \/ (Head(s).by = h /\ x = Head(s).from)
  <2>1. PICK i \in 1 .. Len(s) : s[i].by = h /\ x = s[i].from
    BY <1>1, <1>2 DEF FromIn
  <2>2. CASE i = 1
    BY <1>1, <2>1, <2>2
  <2>3. CASE i # 1
    <3>1. i - 1 \in 1 .. Len(s) - 1 /\ Tail(s)[i - 1] = s[i]
      BY <1>1, <2>1, <2>3
    <3> QED
      BY <1>1, <2>1, <3>1 DEF FromIn
  <2> QED
    BY <2>2, <2>3
<1>3. ASSUME NEW x \in FromIn(Tail(s), h) PROVE x \in FromIn(s, h)
  <2>1. PICK i \in 1 .. Len(s) - 1 : Tail(s)[i].by = h /\ x = Tail(s)[i].from
    BY <1>1, <1>3 DEF FromIn
  <2>2. i + 1 \in 1 .. Len(s) /\ s[i + 1] = Tail(s)[i]
    BY <1>1, <2>1
  <2> QED
    BY <1>1, <2>1, <2>2 DEF FromIn
<1>4. Head(s).by = h => Head(s).from \in FromIn(s, h)
  BY <1>1 DEF FromIn
<1> QED
  BY <1>1, <1>2, <1>3, <1>4

LEMMA ForgetFrom ==
  ASSUME NEW s \in Seq(Asked), NEW h \in Hosts, NEW g \in Hosts
  PROVE  FromIn(Forget(s, h), g) = IF g = h THEN {} ELSE FromIn(s, g)
<1>1. DOMAIN s = 1 .. Len(s) /\ DOMAIN Forget(s, h) = DOMAIN s
  BY ForgetSeq DEF Forget
<1>2. \A i \in DOMAIN s : /\ s[i] \in Asked
                          /\ s[i].by = h => Forget(s, h)[i].by = Nobody
                          /\ s[i].by # h => Forget(s, h)[i] = s[i]
  <2>1. \A m \in Asked : [m EXCEPT !.by = Nobody].by = Nobody
    BY DEF Asked
  <2> SUFFICES ASSUME NEW i \in DOMAIN s
               PROVE  /\ s[i] \in Asked
                      /\ s[i].by = h => Forget(s, h)[i].by = Nobody
                      /\ s[i].by # h => Forget(s, h)[i] = s[i]
    OBVIOUS
  <2>2. s[i] \in Asked
    OBVIOUS
  <2>3. Forget(s, h)[i] = IF s[i].by = h THEN [s[i] EXCEPT !.by = Nobody] ELSE s[i]
    <3>1. i \in 1 .. Len(s)
      BY <1>1
    <3> QED
      BY <3>1, ForgetSeq
  <2> HIDE DEF Forget
  <2> QED
    BY <2>1, <2>2, <2>3
<1>3. h # Nobody /\ g # Nobody
  BY SizesOK
<1> QED
  BY <1>1, <1>2, <1>3 DEF FromIn

\* WaitHasCause in these words.
LEMMA HopesAreCauses ==
  ASSUME WInv
  PROVE  WaitHasCause
<1>1. ASSUME NEW s, NEW h PROVE FromIn(s, h) # {} => Mine(s, h)
  BY DEF FromIn, Mine
<1> QED
  BY <1>1 DEF WInv, Hopes, Waits, From, WaitHasCause

\* A step of a program leaves the hopes of the others alone.
LEMMA OthersHope ==
  ASSUME NEW g \in Hosts, Hopes(g),
         prog' = prog, at'[g] = at[g], pc'[g] = pc[g], queue'[g] = queue[g],
         From(g)' = From(g), g \in missed => g \in missed'
  PROVE  Hopes(g)'
BY DEF Hopes, Waits, HasSocket, Req, Request

\* After its round, a program that keeps its socket keeps its filter.
LEMMA HopesAfterLeave ==
  ASSUME IInv, NEW h \in Hosts, Hopes(h), HasSocket(h),
         NEW places, NEW closes, NEW rest, Left(h, places, closes, rest),
         \A p \in places \ {End} :
           Request(h, p).opens \/ (/\ Request(h, p).passes = Req(h).passes
                                   /\ Request(h, p).reads = Req(h).reads),
         From(h)' \subseteq From(h)
  PROVE  Hopes(h)'
<1>1. ~Waits(h)'
  BY DEF Left, Waits, Request
<1>2. CASE at'[h] = End
  BY <1>1, <1>2 DEF Left, Hopes, HasSocket
<1>3. CASE at'[h] # End
  <2>1. HasSocket(h)' => ~Request(h, at'[h]).opens /\ at'[h] \in places \ {End}
    BY <1>3 DEF Left, HasSocket
  <2>2. Req(h)' = Request(h, at'[h])
    BY DEF Req, Request, Left
  <2>3. HasSocket(h)' => Req(h)'.passes = Req(h).passes /\ Req(h)'.reads = Req(h).reads
    BY <2>1, <2>2
  <2> QED
    BY <1>1, <2>3 DEF Hopes
<1> QED
  BY <1>2, <1>3

LEMMA SocketCounted ==
  ASSUME TypeOK, LeaksAreFailures, NEW h \in Hosts, HasSocket(h)
  PROVE  fds[h] > 0
<1>1. at[h] # End /\ HasSocket(h) /\ failed[h] \in Nat
  BY SizesOK DEF TypeOK, HasSocket
<1>2. fds[h] = failed[h] + 1
  BY <1>1 DEF LeaksAreFailures
<1> QED
  BY <1>1, <1>2

LEMMA StepHopes ==
  ASSUME WInv, NEW h \in Hosts, Step(h) \/ BindFails(h) \/ SelectFails(h) \/ ReadFails(h)
  PROVE  \A g \in Hosts : Hopes(g)'
<1> DEFINE r == Req(h)  script == Script[prog[h]]  positions == DOMAIN script.at \cup {End}
<1> USE DEF WInv, IInv
<1>0. pc[h] # "end" => /\ at[h] \in DOMAIN script.at
                       /\ r \in Requests(positions)
                       /\ OneSocketAtATime(script, r)
                       /\ FilterPassesAnswer(r)
  BY Scripted DEF TypeOK, Req
<1>0a. pc[h] \in {"ready", "wait"} => fds[h] > 0 /\ queue[h] \in Seq(Frames)
  <2>1. HasSocket(h) => fds[h] > 0
    BY SocketCounted
  <2>2. queue[h] \in Seq(Frames)
    BY DEF TypeOK
  <2> QED
    BY <2>1, <2>2 DEF HasSocket
<1>1. CASE Socket(h)
  <2>1. \A g \in Hosts : From(g)' = IF g = h THEN {} ELSE From(g)
    BY <1>1, ForgetFrom DEF Socket, From, TypeOK
  <2>2. Hopes(h)'
    BY <1>1, <2>1 DEF Socket, Hopes, Waits, TypeOK
  <2>3. ASSUME NEW g \in Hosts \ {h} PROVE Hopes(g)'
    BY <1>1, <2>1, OthersHope DEF Socket, TypeOK
  <2> QED
    BY <2>2, <2>3
<1>2. ASSUME UNCHANGED <<tx, owed>> PROVE \A g \in Hosts : From(g)' = From(g)
  BY <1>2 DEF From
<1>3. CASE Bind(h) \/ Filter(h) \/ Listen(h)
  <2>1. ASSUME NEW g \in Hosts \ {h} PROVE Hopes(g)'
    BY <1>2, <1>3, OthersHope DEF Bind, Filter, Listen, Stay, TypeOK
  <2>2. Hopes(h)'
    BY <1>2, <1>3 DEF Bind, Filter, Listen, Stay, TypeOK, Hopes, Waits, HasSocket, Req, Request
  <2> QED
    BY <2>1, <2>2
<1>4. ASSUME NEW places \in SUBSET positions, NEW closes \in BOOLEAN,
             NEW rest \in Seq(Frames), pc[h] \in {"ready", "wait"},
             \A p \in places \ {End} :
               script.at[p].opens \/ (/\ script.at[p].passes = r.passes
                                      /\ script.at[p].reads = r.reads),
             Leave(h, places, closes, rest), missed \subseteq missed',
             \A g \in Hosts \ {h} : From(g)' = From(g), From(h)' \subseteq From(h)
      PROVE  \A g \in Hosts : Hopes(g)'
  <2>1. Left(h, places, closes, rest)
    BY <1>0a, <1>4, LeaveEffect
  <2>2. ASSUME NEW g \in Hosts \ {h} PROVE Hopes(g)'
    BY <1>4, <2>1, OthersHope DEF Left
  <2>3. Hopes(h)'
    BY <1>4, <2>1, HopesAfterLeave DEF HasSocket, Request
  <2> QED
    BY <2>2, <2>3
<1>5. ASSUME NEW places \in SUBSET positions, pc[h] \in {"next", "opened", "ready", "wait"},
             \A p \in places \ {End} : script.at[p].opens,
             Leave(h, places, FALSE, <<>>), missed \subseteq missed', UNCHANGED <<tx, owed>>
      PROVE  \A g \in Hosts : Hopes(g)'
  <2>1. Left(h, places, FALSE, <<>>)
    <3>1. <<>> \in Seq(Frames)
      OBVIOUS
    <3> QED
      BY <1>5, <3>1, LeaveEffect
  <2>2. ASSUME NEW g \in Hosts \ {h} PROVE Hopes(g)'
    BY <1>2, <1>5, <2>1, OthersHope DEF Left
  <2>3. ~HasSocket(h)'
    BY <1>5, <2>1 DEF Left, HasSocket, Request
  <2>4. Hopes(h)'
    BY <2>3 DEF Hopes, Waits, HasSocket
  <2> QED
    BY <2>2, <2>4
<1>6. pc[h] # "end" =>
        /\ {r.then, r.fail, r.late, r.err, r.nofd} \subseteq SUBSET positions
        /\ {r.closes, r.asks, r.anyway} \subseteq BOOLEAN
        /\ \A p \in (r.fail \cup r.err \cup r.nofd) \ {End} : script.at[p].opens
        /\ \A p \in (r.then \cup r.late) \ {End} :
             script.at[p].opens \/ (/\ script.at[p].passes = r.passes
                                    /\ script.at[p].reads = r.reads)
  BY <1>0 DEF Requests, OneSocketAtATime
<1>7. CASE NoDescriptor(h)
  BY <1>5, <1>6, <1>7 DEF NoDescriptor
<1>8. CASE ReadFails(h) \/ BindFails(h)
  BY <1>5, <1>6, <1>8 DEF ReadFails, BindFails
<1>9. CASE Read(h)
  <2>1. Tail(queue[h]) \in Seq(Frames)
    BY <1>9 DEF Read, Readable, TypeOK
  <2> QED
    BY <1>2, <1>4, <1>6, <1>9, <2>1 DEF Read
<1>10. CASE Timeout(h)
  BY <1>0a, <1>2, <1>4, <1>6, <1>10 DEF Timeout
<1>11. CASE SelectFails(h)
  BY <1>0a, <1>2, <1>4, <1>6, <1>11 DEF SelectFails
\* Sent, whether the request went out or not.
<1>12. ASSUME Sent(h), pc[h] = "ready", r.asks, missed \subseteq missed',
              \A g \in Hosts \ {h} : From(g)' = From(g),
              From(h)' \subseteq From(h) \cup {r.from}, r.from \in From(h)' \/ h \in missed'
       PROVE  \A g \in Hosts : Hopes(g)'
  <2>1. CASE r.reads = "never"
    <3>1. Left(h, r.then, r.closes, queue[h])
      <4>1. Leave(h, r.then, r.closes, queue[h])
        BY <1>12, <2>1 DEF Sent
      <4>2. r.then \in SUBSET positions /\ r.closes \in BOOLEAN
        BY <1>6, <1>12
      <4> QED
        BY <1>0a, <1>12, <4>1, <4>2, LeaveEffect
    <3>2. ASSUME NEW g \in Hosts \ {h} PROVE Hopes(g)'
      BY <1>12, <3>1, OthersHope DEF Left
    <3>3. pc'[h] # "wait"
      BY <3>1 DEF Left
    <3>4. pc'[h] = "ready" => Req(h)'.reads = "never"
      BY <1>6, <1>12, <2>1, <3>1 DEF Left, Req, Request
    <3>5. pc'[h] \notin {"opened", "bound"}
      BY <3>1 DEF Left
    <3>6. Hopes(h)'
      BY <3>3, <3>4, <3>5 DEF Hopes, Waits, HasSocket
    <3> QED
      BY <3>2, <3>6
  <2>2. CASE r.reads # "never"
    <3>1. Stay(h, "wait")
      BY <1>12, <2>2 DEF Sent
    <3>2. ASSUME NEW g \in Hosts \ {h} PROVE Hopes(g)'
      BY <1>12, <3>1, OthersHope DEF Stay, TypeOK
    <3>3. Req(h)' = r
      BY <3>1 DEF Stay, Req, Request
    <3>4. r.reads = "ever" => r.from \in r.passes
      BY <1>0, <1>12 DEF FilterPassesAnswer
    <3>5. r.reads = "ever" => From(h) \subseteq r.passes
      BY <1>12 DEF Hopes, HasSocket
    <3>6. Hopes(h)'
      BY <1>12, <3>3, <3>4, <3>5 DEF Hopes, Waits
    <3> QED
      BY <3>2, <3>6
  <2> QED
    BY <2>1, <2>2
<1>13. CASE Write(h)
  <2> DEFINE m == [id |-> r.id, cmd |-> r.cmd, from |-> r.from, by |-> h]
  <2>1. m \in Asked
    BY <1>0, <1>13 DEF Write, Requests, Asked
  <2>2. \A g \in Hosts : FromIn(tx', g) = FromIn(tx, g) \cup (IF g = h THEN {r.from} ELSE {})
    <3>1. tx' = Append(tx, m)
      BY <1>13 DEF Write
    <3>2. tx \in Seq(Asked)
      BY DEF TypeOK
    <3>3. m.by = h /\ m.from = r.from
      OBVIOUS
    <3> HIDE DEF m
    <3> QED
      BY <2>1, <3>1, <3>2, <3>3, AppendFrom
  <2>3. \A g \in Hosts : From(g)' = From(g) \cup (IF g = h THEN {r.from} ELSE {})
    BY <1>13, <2>2 DEF Write, From
  <2>4. /\ Sent(h) /\ pc[h] = "ready" /\ r.asks /\ missed' = missed
    BY <1>13 DEF Write
  <2> HIDE DEF m
  <2> QED
    BY <1>12, <2>3, <2>4
<1>14. CASE WriteFails(h)
  <2>1. CASE r.anyway
    BY <1>2, <1>12, <1>14, <2>1 DEF WriteFails
  <2>2. CASE ~r.anyway
    BY <1>5, <1>6, <1>14, <2>2 DEF WriteFails
  <2> QED
    BY <2>1, <2>2
<1> QED
  BY <1>1, <1>3, <1>7, <1>8, <1>9, <1>10, <1>11, <1>13, <1>14 DEF Step

\* A request that leaves a queue takes what it promised with it.
LEMMA OwedTailFrom ==
  ASSUME TypeOK, NEW n \in Nodes, owed[n] # <<>>, tx' = tx,
         owed' = [owed EXCEPT ![n] = Tail(@)], NEW g \in Hosts
  PROVE  /\ Head(owed[n]) \in Asked
         /\ From(g) = From(g)' \cup (IF Head(owed[n]).by = g THEN {Head(owed[n]).from} ELSE {})
<1>1. owed[n] \in Seq(Asked) /\ owed'[n] = Tail(owed[n])
      /\ \A k \in Nodes \ {n} : owed'[k] = owed[k]
  BY DEF TypeOK
<1>2. /\ FromIn(owed[n], g) = FromIn(owed'[n], g) \cup
           (IF Head(owed[n]).by = g THEN {Head(owed[n]).from} ELSE {})
      /\ Head(owed[n]) \in Asked
  BY <1>1, TailFrom
<1>3. From(g) = FromIn(tx, g) \cup FromIn(owed[n], g)
                \cup UNION {FromIn(owed[k], g) : k \in Nodes \ {n}}
  BY DEF From
<1>4. From(g)' = FromIn(tx, g) \cup FromIn(owed'[n], g)
                 \cup UNION {FromIn(owed[k], g) : k \in Nodes \ {n}}
  BY <1>1 DEF From
<1> QED
  BY <1>2, <1>3, <1>4

\* A socket that stays empty was empty, and let nothing pass.
LEMMA DeliverNothing ==
  ASSUME TypeOK, NEW f \in [id : Int, cmd : STRING, tag : Int, reply : BOOLEAN],
         NEW to, Deliver(f, to), NEW g \in Hosts, queue'[g] = <<>>
  PROVE  /\ queue[g] = <<>>
         /\ g \in to /\ pc[g] = "wait" => f.id \notin Req(g).passes
<1>1. \A e \in Frames : Append(queue[g], e) # <<>>
  <2>1. queue[g] \in Seq(Frames)
    BY DEF TypeOK
  <2>2. \A q \in Seq(Frames), e \in Frames : Append(q, e) # <<>>
    OBVIOUS
  <2> QED
    BY <2>1, <2>2
<1>1a. [id |-> f.id, cmd |-> f.cmd, tag |-> f.tag, reply |-> f.reply,
        early |-> pc[g] = "bound"] \in Frames
  BY DEF Frames
<1>2. queue[g] = <<>>
  BY <1>1, <1>1a DEF Deliver
<1>3. Len(queue[g]) < RcvLen
  BY <1>2, SizesOK
<1> QED
  BY <1>1, <1>1a, <1>2, <1>3 DEF Deliver, Passes

\* Whatever the device and the nodes do: what they lose is on record, and
\* an answer finds the socket that waits for it.
LEMMA BusHopes ==
  ASSUME WInv, NEW n, Send \/ (n \in Nodes /\ (Answer(n) \/ Lose(n))), NEW g \in Hosts
  PROVE  Hopes(g)'
<1>1. TypeOK /\ Hopes(g)
  BY DEF WInv, IInv
\* Enough: nothing new is promised, and what a host that still waits was promised stands.
<1>2. ASSUME prog' = prog, at' = at, pc' = pc, missed \subseteq missed',
             From(g)' \subseteq From(g), queue'[g] = <<>> => queue[g] = <<>>,
             Waits(g) /\ queue'[g] = <<>> => From(g)' = From(g) \/ g \in missed'
      PROVE  Hopes(g)'
  BY <1>1, <1>2 DEF Hopes, Waits, HasSocket, Req, Request
<1>3. CASE Send
  <2> DEFINE m == Head(tx)
             f == [id |-> m.id, cmd |-> m.cmd, tag |-> 0, reply |-> FALSE]
             mine == IF m.by = g THEN {m.from} ELSE {}
  <2>1. /\ tx # <<>> /\ tx' = Tail(tx) /\ prog' = prog /\ at' = at /\ pc' = pc
        /\ Deliver(f, Hosts \ {m.by})
    BY <1>3 DEF Send
  <2>2. m \in Asked /\ Tail(tx) \in Seq(Asked) /\ FromIn(tx, g) = FromIn(tx', g) \cup mine
    BY <1>1, <2>1, TailFrom DEF TypeOK
  <2>3. f \in [id : Int, cmd : STRING, tag : Int, reply : BOOLEAN]
    BY <2>2 DEF Asked
  <2>4. queue'[g] = <<>> => queue[g] = <<>>
    <3> HIDE DEF f
    <3> QED
      BY <1>1, <2>1, <2>3, DeliverNothing
  <2>5. CASE /\ m.id \in Nodes /\ Len(owed[m.id]) < OwedLen
             /\ owed' = [owed EXCEPT ![m.id] = Append(@, m)]
             /\ UNCHANGED missed
    <3> DEFINE rest == UNION {FromIn(owed[k], g) : k \in Nodes \ {m.id}}
    <3>1. owed[m.id] \in Seq(Asked) /\ owed'[m.id] = Append(owed[m.id], m)
          /\ \A k \in Nodes \ {m.id} : owed'[k] = owed[k]
      BY <1>1, <2>5 DEF TypeOK
    <3>2. FromIn(owed'[m.id], g) = FromIn(owed[m.id], g) \cup mine
      <4> HIDE DEF m
      <4> QED
        BY <2>2, <3>1, AppendFrom
    <3>3. From(g) = FromIn(tx, g) \cup FromIn(owed[m.id], g) \cup rest
      BY <2>5 DEF From
    <3>4. From(g)' = FromIn(tx', g) \cup FromIn(owed'[m.id], g) \cup rest
      BY <2>5, <3>1 DEF From
    <3>5. From(g)' = From(g)
      <4> HIDE DEF m, rest, mine
      <4> QED
        BY <2>2, <3>2, <3>3, <3>4
    <3> QED
      BY <1>2, <2>1, <2>4, <2>5, <3>5
  <2>6. CASE missed' = missed \cup ({m.by} \cap Hosts) /\ UNCHANGED owed
    <3>1. From(g) = From(g)' \cup mine
      BY <2>2, <2>6 DEF From
    <3>2. m.by = g => g \in missed'
      BY <2>6
    <3>3. m.by # g => mine = {}
      OBVIOUS
    <3> HIDE DEF m, mine
    <3> QED
      BY <1>2, <2>1, <2>4, <2>6, <3>1, <3>2, <3>3
  <2> QED
    BY <1>3, <2>5, <2>6 DEF Send
<1>4. CASE n \in Nodes /\ Answer(n)
  <2> DEFINE m == Head(owed[n])
  <2>0. PICK cmd \in {m.cmd, Short} :
          Deliver([id |-> m.from, cmd |-> cmd, tag |-> m.from, reply |-> TRUE], Hosts)
    BY <1>4 DEF Answer
  <2> DEFINE f == [id |-> m.from, cmd |-> cmd, tag |-> m.from, reply |-> TRUE]
  <2>1. /\ owed[n] # <<>> /\ tx' = tx /\ owed' = [owed EXCEPT ![n] = Tail(@)]
        /\ prog' = prog /\ at' = at /\ pc' = pc /\ missed' = missed
        /\ Deliver(f, Hosts)
    BY <1>4, <2>0 DEF Answer
  <2>2. m \in Asked /\ From(g) = From(g)' \cup (IF m.by = g THEN {m.from} ELSE {})
    BY <1>1, <1>4, <2>1, OwedTailFrom
  <2>3. f \in [id : Int, cmd : STRING, tag : Int, reply : BOOLEAN] /\ f.id = m.from
    <3>1. m.cmd \in STRING /\ m.from \in Int
      BY <2>2 DEF Asked
    <3>2. Short \in STRING
      BY SizesOK
    <3> HIDE DEF m
    <3> QED
      BY <2>0, <3>1, <3>2
  <2>4. queue'[g] = <<>> =>
          queue[g] = <<>> /\ (pc[g] = "wait" => m.from \notin Req(g).passes)
    <3> HIDE DEF f
    <3> QED
      BY <1>1, <2>1, <2>3, DeliverNothing
  <2>5. Waits(g) => From(g) \subseteq Req(g).passes
    BY <1>1 DEF Hopes, Waits, HasSocket
  <2>6. Waits(g) /\ queue'[g] = <<>> => From(g)' = From(g)
    <3> HIDE DEF m
    <3> QED
      BY <2>2, <2>4, <2>5 DEF Waits
  <2> HIDE DEF m, f
  <2> QED
    BY <1>2, <2>1, <2>2, <2>4, <2>6
<1>5. CASE n \in Nodes /\ Lose(n)
  <2> DEFINE m == Head(owed[n])
  <2>1. /\ owed[n] # <<>> /\ tx' = tx /\ owed' = [owed EXCEPT ![n] = Tail(@)]
        /\ prog' = prog /\ at' = at /\ pc' = pc /\ queue' = queue
        /\ missed' = missed \cup ({m.by} \cap Hosts)
    BY <1>5 DEF Lose, host
  <2>2. From(g) = From(g)' \cup (IF m.by = g THEN {m.from} ELSE {})
    BY <1>1, <1>5, <2>1, OwedTailFrom
  <2> HIDE DEF m
  <2> QED
    BY <1>2, <2>1, <2>2
<1> QED
  BY <1>3, <1>4, <1>5

(* A program of can/socketcan that waits in read without end has its       *)
(* request or its answer under way, or lost: its filter lets every answer  *)
(* it can get pass, and no request of an earlier socket is taken for one.  *)
THEOREM WaitsHaveCauses == Spec => []WaitHasCause
<1>1. Init => WInv
  <2> SUFFICES ASSUME Init PROVE WInv
    OBVIOUS
  <2>1. \A h \in Hosts : pc[h] = "next"
    BY DEF Init
  <2>2. \A h \in Hosts : Hopes(h)
    BY <2>1 DEF Hopes, Waits, HasSocket
  <2> QED
    BY <2>2, InitInv DEF WInv
<1>2. WInv /\ [Next]_vars => WInv'
  <2> SUFFICES ASSUME WInv, [Next]_vars PROVE WInv'
    OBVIOUS
  <2>1. IInv'
    BY NextInv DEF WInv
  <2>2. CASE UNCHANGED vars
    <3>1. \A g \in Hosts : From(g)' = From(g)
      BY <2>2 DEF vars, From
    <3>2. \A g \in Hosts : Hopes(g)'
      BY <2>2, <3>1, OthersHope DEF vars, host, WInv
    <3> QED
      BY <2>1, <3>2 DEF WInv
  <2>3. CASE Next
    <3>1. \A g \in Hosts : Hopes(g)'
      BY <2>3, StepHopes, BusHopes DEF Next
    <3> QED
      BY <2>1, <3>1 DEF WInv
  <2> QED
    BY <2>2, <2>3
<1> QED
  BY <1>1, <1>2, HopesAreCauses, PTL DEF Spec
-----------------------------------------------------------------------------
(* What is on the bus: a request some program makes, with byte 4 zero, or  *)
(* the answer to one.                                                      *)
Genuine(s) == \A i \in DOMAIN s : Asks(s[i].id, s[i].cmd)

Known(f) == f.reply \/ (f.tag = 0 /\ Asks(f.id, f.cmd))

\* A socket holds what came before its filter was set, and what the filter passes.
Filtered(h, f) ==
  \/ pc[h] = "bound" /\ f.early
  \/ pc[h] \in {"ready", "wait"} /\ (f.early \/ f.id \in Req(h).passes)

Heard(h) == \A i \in DOMAIN queue[h] : Known(queue[h][i]) /\ Filtered(h, queue[h][i])

AInv ==
  /\ IInv
  /\ Genuine(tx) /\ \A n \in Nodes : Genuine(owed[n])
  /\ \A h \in Hosts : Heard(h)

LEMMA GenuineQueues ==
  ASSUME NEW s \in Seq(Asked), Genuine(s)
  PROVE  /\ s # <<>> => Genuine(Tail(s)) /\ Asks(Head(s).id, Head(s).cmd)
         /\ \A m \in Asked : Asks(m.id, m.cmd) => Genuine(Append(s, m))
         /\ \A h \in Hosts : Genuine(Forget(s, h))
<1>1. ASSUME s # <<>> PROVE Genuine(Tail(s)) /\ Asks(Head(s).id, Head(s).cmd)
  <2>1. /\ DOMAIN s = 1 .. Len(s) /\ Len(s) \in Nat \ {0} /\ Head(s) = s[1]
        /\ DOMAIN Tail(s) = 1 .. Len(s) - 1
        /\ \A i \in 1 .. Len(s) - 1 : Tail(s)[i] = s[i + 1] /\ i + 1 \in 1 .. Len(s)
    BY <1>1
  <2> QED
    BY <2>1 DEF Genuine
<1>2. ASSUME NEW m \in Asked, Asks(m.id, m.cmd) PROVE Genuine(Append(s, m))
  <2>1. /\ DOMAIN s = 1 .. Len(s) /\ Len(s) \in Nat
        /\ DOMAIN Append(s, m) = 1 .. Len(s) + 1
        /\ \A i \in 1 .. Len(s) : Append(s, m)[i] = s[i]
        /\ Append(s, m)[Len(s) + 1] = m
    OBVIOUS
  <2>2. 1 .. Len(s) + 1 = (1 .. Len(s)) \cup {Len(s) + 1}
    BY <2>1
  <2> QED
    BY <1>2, <2>1, <2>2 DEF Genuine
<1>3. ASSUME NEW h \in Hosts PROVE Genuine(Forget(s, h))
  <2>1. \A m \in Asked : [m EXCEPT !.by = Nobody].id = m.id /\ [m EXCEPT !.by = Nobody].cmd = m.cmd
    BY DEF Asked
  <2>2. DOMAIN s = 1 .. Len(s) /\ DOMAIN Forget(s, h) = DOMAIN s
    BY DEF Forget
  <2>3. ASSUME NEW i \in 1 .. Len(s)
        PROVE  Forget(s, h)[i].id = s[i].id /\ Forget(s, h)[i].cmd = s[i].cmd
    <3>1. s[i] \in Asked
      BY <2>2
    <3>2. Forget(s, h)[i] = IF s[i].by = h THEN [s[i] EXCEPT !.by = Nobody] ELSE s[i]
      BY ForgetSeq
    <3> HIDE DEF Forget
    <3> QED
      BY <2>1, <3>1, <3>2
  <2> QED
    BY <2>2, <2>3 DEF Genuine
<1> QED
  BY <1>1, <1>2, <1>3

LEMMA NobodyAsksShort == \A id : ~Asks(id, Short)
<1> SUFFICES ASSUME NEW g \in DOMAIN Script, NEW p \in DOMAIN Script[g].at,
                    Script[g].at[p].cmd = Short
             PROVE  FALSE
  BY DEF Asks
<1>1. Script[g].at[p] \in Requests(DOMAIN Script[g].at \cup {End})
  BY ScriptsOK
<1> QED
  BY <1>1 DEF Requests

\* A program that checks its frames takes none but the answer it asked for.
LEMMA HeardAreAnswers ==
  ASSUME AInv
  PROVE  CheckedAnswer
<1> SUFFICES ASSUME NEW h \in Hosts, pc[h] = "wait", NEW i \in DOMAIN queue[h],
                    Accepts(Req(h), queue[h][i])
             PROVE  /\ queue[h][i].reply /\ queue[h][i].cmd \in {Req(h).cmd, Short}
                    /\ queue[h][i].id = Req(h).id \/ queue[h][i].early
  BY DEF CheckedAnswer
<1> DEFINE r == Req(h)  f == queue[h][i]
<1>1. r.checked /\ (f.cmd = Short \/ (f.cmd = r.cmd /\ f.tag = f.id))
  BY DEF Accepts
<1>2. r.passes = {r.id} /\ ~Asks(0, r.cmd)
  <2>1. prog[h] \in DOMAIN Script /\ at[h] \in DOMAIN Script[prog[h]].at
    BY ScriptsOK DEF AInv, IInv, TypeOK
  <2> QED
    BY <1>1, <2>1, ChecksOK DEF Req, Request
<1>3. Known(f) /\ Filtered(h, f)
  BY DEF AInv, Heard
<1>4. f.reply
  BY <1>1, <1>2, <1>3, NobodyAsksShort DEF Known
<1>5. f.id = r.id \/ f.early
  BY <1>2, <1>3 DEF Filtered
<1> QED
  BY <1>1, <1>4, <1>5

\* A step of a program leaves the sockets of the others alone.
LEMMA OthersHeard ==
  ASSUME NEW g \in Hosts, Heard(g),
         prog' = prog, at'[g] = at[g], pc'[g] = pc[g], queue'[g] = queue[g]
  PROVE  Heard(g)'
BY DEF Heard, Filtered, Req, Request

\* After its round, a program that keeps its socket keeps what the filter passed.
LEMMA HeardAfterLeave ==
  ASSUME NEW h \in Hosts, NEW places, NEW closes, NEW rest, Left(h, places, closes, rest),
         \A i \in DOMAIN rest : Known(rest[i]) /\ (rest[i].early \/ rest[i].id \in Req(h).passes),
         \A p \in places \ {End} : Request(h, p).opens \/ Request(h, p).passes = Req(h).passes,
         at'[h] = End => queue'[h] = <<>>
  PROVE  Heard(h)'
<1>1. CASE queue'[h] = <<>>
  BY <1>1 DEF Heard
<1>2. CASE queue'[h] # <<>>
  <2>1. at'[h] # End /\ pc'[h] = "ready" /\ queue'[h] = rest /\ ~Request(h, at'[h]).opens
    BY <1>2 DEF Left
  <2>2. Req(h)' = Request(h, at'[h]) /\ Req(h)'.passes = Req(h).passes
    BY <2>1 DEF Left, Req, Request
  <2> QED
    BY <2>1, <2>2 DEF Heard, Filtered, Known
<1> QED
  BY <1>1, <1>2

\* A frame on the bus reaches the sockets that have no filter or one that passes it.
LEMMA DeliverHeard ==
  ASSUME TypeOK, NEW f \in [id : Int, cmd : STRING, tag : Int, reply : BOOLEAN], NEW to,
         Deliver(f, to), Known(f), NEW g \in Hosts, Heard(g),
         prog' = prog, at' = at, pc' = pc
  PROVE  Heard(g)'
<1> DEFINE e == [id |-> f.id, cmd |-> f.cmd, tag |-> f.tag, reply |-> f.reply,
                 early |-> pc[g] = "bound"]
<1>1. CASE queue'[g] = queue[g]
  BY <1>1, OthersHeard
<1>2. CASE queue'[g] # queue[g]
  <2>1. /\ queue'[g] = Append(queue[g], e)
        /\ pc[g] \in {"bound", "ready", "wait"} /\ Passes(g, f)
    BY <1>2 DEF Deliver
  <2>2. Known(e)
    BY DEF Known
  <2>3. Filtered(g, e)
    BY <2>1 DEF Filtered, Passes
  <2>4. e \in Frames /\ queue[g] \in Seq(Frames)
    BY DEF Frames, TypeOK
  <2> HIDE DEF e
  <2>5. /\ DOMAIN queue'[g] = DOMAIN queue[g] \cup {Len(queue[g]) + 1}
        /\ queue'[g][Len(queue[g]) + 1] = e
        /\ \A i \in DOMAIN queue[g] : queue'[g][i] = queue[g][i]
    BY <2>1, <2>4
  <2>6. \A i \in DOMAIN queue'[g] : Known(queue'[g][i]) /\ Filtered(g, queue'[g][i])
    BY <2>2, <2>3, <2>5 DEF Heard
  <2> QED
    BY <2>6 DEF Heard, Filtered, Req, Request
<1> QED
  BY <1>1, <1>2
\* A program takes frames from its socket, and puts only requests of its script on the bus.
LEMMA StepHeard ==
  ASSUME AInv, NEW h \in Hosts, Step(h) \/ BindFails(h) \/ SelectFails(h) \/ ReadFails(h)
  PROVE  AInv'
<1> DEFINE r == Req(h)  script == Script[prog[h]]  positions == DOMAIN script.at \cup {End}
<1>0. IInv' /\ TypeOK
  BY StepInv DEF AInv, IInv
<1>1. pc[h] # "end" =>
        /\ prog[h] \in DOMAIN Script /\ at[h] \in DOMAIN script.at
        /\ r \in Requests(positions)
        /\ OneSocketAtATime(script, r)
  BY <1>0, Scripted, ScriptsOK DEF TypeOK, Req
<1>2. pc[h] \in {"ready", "wait"} => fds[h] > 0
  BY <1>0, SocketCounted DEF AInv, IInv, HasSocket
<1>3. queue[h] \in Seq(Frames)
  BY <1>0 DEF TypeOK
<1>4. pc[h] \in {"ready", "wait"} =>
        \A i \in DOMAIN queue[h] :
          Known(queue[h][i]) /\ (queue[h][i].early \/ queue[h][i].id \in r.passes)
  BY DEF AInv, Heard, Filtered
<1>5. pc[h] # "end" =>
        /\ {r.then, r.fail, r.late, r.err, r.nofd} \subseteq SUBSET positions
        /\ {r.closes, r.asks, r.anyway} \subseteq BOOLEAN
        /\ \A p \in (r.fail \cup r.err \cup r.nofd) \ {End} : script.at[p].opens
        /\ \A p \in (r.then \cup r.late) \ {End} :
             script.at[p].opens \/ script.at[p].passes = r.passes
  BY <1>1 DEF Requests, OneSocketAtATime
\* Enough: what is in the queues of the device and the nodes, and the socket of h.
<1>6. ASSUME UNCHANGED <<tx, owed>>, Heard(h)', prog' = prog,
             \A g \in Hosts \ {h} : at'[g] = at[g] /\ pc'[g] = pc[g] /\ queue'[g] = queue[g]
      PROVE  AInv'
  BY <1>0, <1>6, OthersHeard DEF AInv
<1>7. ASSUME NEW places \in SUBSET positions, NEW closes \in BOOLEAN, NEW rest \in Seq(Frames),
             closes => fds[h] > 0, Leave(h, places, closes, rest),
             \A i \in DOMAIN rest : Known(rest[i]) /\ (rest[i].early \/ rest[i].id \in r.passes),
             \A p \in places \ {End} : script.at[p].opens \/ script.at[p].passes = r.passes
      PROVE  /\ Heard(h)' /\ prog' = prog
             /\ \A g \in Hosts \ {h} : at'[g] = at[g] /\ pc'[g] = pc[g] /\ queue'[g] = queue[g]
  <2>1. Left(h, places, closes, rest)
    BY <1>0, <1>7, LeaveEffect
  <2>2. at'[h] = End => queue'[h] = <<>>
    BY <1>0, <1>7, <2>1 DEF Leave, Left, TypeOK
  <2>3. Heard(h)'
    BY <1>7, <2>1, <2>2, HeardAfterLeave DEF Request
  <2> QED
    BY <2>1, <2>3 DEF Left
<1>8. <<>> \in Seq(Frames) /\ DOMAIN <<>> = {}
  OBVIOUS
<1>9. CASE Socket(h)
  <2>1. queue[h] = <<>>
    <3>1. pc[h] = "next"
      BY <1>9 DEF Socket
    <3>2. DOMAIN queue[h] = {}
      BY <3>1 DEF AInv, Heard, Filtered
    <3>3. Len(queue[h]) \in Nat /\ DOMAIN queue[h] = 1 .. Len(queue[h])
      BY <1>3
    <3>4. ~(1 \in 1 .. Len(queue[h]))
      BY <3>2, <3>3
    <3>5. Len(queue[h]) = 0
      BY <3>3, <3>4
    <3> QED
      BY <1>3, <3>5
  <2>2. queue' = queue /\ Heard(h)'
    BY <1>9, <2>1 DEF Socket, Heard
  <2>3. \A g \in Hosts \ {h} : Heard(g)'
    BY <1>0, <1>9, OthersHeard DEF Socket, AInv, TypeOK
  <2>4. Genuine(tx)' /\ \A n \in Nodes : Genuine(owed[n])'
    BY <1>0, <1>9, GenuineQueues DEF Socket, AInv, TypeOK
  <2> QED
    BY <1>0, <2>2, <2>3, <2>4 DEF AInv
<1>10. CASE Bind(h) \/ Filter(h) \/ Listen(h)
  <2>1. /\ UNCHANGED <<prog, at, tx, owed, queue>>
        /\ \/ pc[h] \in {"bound", "ready"} /\ pc'[h] \in {"ready", "wait"}
           \/ pc[h] = "opened" /\ pc'[h] = "bound"
        /\ \A g \in Hosts \ {h} : pc'[g] = pc[g]
    BY <1>0, <1>10 DEF Bind, Filter, Listen, Stay, TypeOK
  <2>2. Heard(h)'
    BY <2>1 DEF AInv, Heard, Filtered, Req, Request
  <2> QED
    BY <1>6, <2>1, <2>2
<1>11. CASE NoDescriptor(h)
  BY <1>5, <1>6, <1>7, <1>8, <1>11 DEF NoDescriptor
<1>12. CASE ReadFails(h) \/ BindFails(h)
  BY <1>5, <1>6, <1>7, <1>8, <1>12 DEF ReadFails, BindFails
<1>13. CASE Read(h)
  <2>1. queue[h] # <<>> /\ pc[h] = "wait" /\ UNCHANGED <<tx, owed>>
        /\ Leave(h, r.then, r.closes, Tail(queue[h]))
    BY <1>13 DEF Read, Readable
  <2>2. /\ Tail(queue[h]) \in Seq(Frames)
        /\ \A i \in DOMAIN Tail(queue[h]) :
             i + 1 \in DOMAIN queue[h] /\ Tail(queue[h])[i] = queue[h][i + 1]
    BY <1>3, <2>1
  <2>3. \A i \in DOMAIN Tail(queue[h]) :
          /\ Known(Tail(queue[h])[i])
          /\ Tail(queue[h])[i].early \/ Tail(queue[h])[i].id \in r.passes
    BY <1>4, <2>1, <2>2
  <2>4. /\ r.then \in SUBSET positions /\ r.closes \in BOOLEAN /\ fds[h] > 0
        /\ \A p \in r.then \ {End} : script.at[p].opens \/ script.at[p].passes = r.passes
    BY <1>2, <1>5, <2>1
  <2> HIDE DEF r, script, positions
  <2> QED
    BY <1>6, <1>7, <2>1, <2>2, <2>3, <2>4
<1>14. CASE Timeout(h)
  BY <1>2, <1>3, <1>4, <1>5, <1>6, <1>7, <1>14 DEF Timeout
<1>15. CASE SelectFails(h)
  BY <1>2, <1>3, <1>4, <1>5, <1>6, <1>7, <1>15 DEF SelectFails
\* Sent, whether the request went out or not.
<1>16. ASSUME Sent(h), pc[h] = "ready"
       PROVE  /\ Heard(h)' /\ prog' = prog
              /\ \A g \in Hosts \ {h} : at'[g] = at[g] /\ pc'[g] = pc[g] /\ queue'[g] = queue[g]
  <2>1. CASE r.reads = "never"
    <3>1. Leave(h, r.then, r.closes, queue[h])
      BY <1>16, <2>1 DEF Sent
    <3> QED
      BY <1>2, <1>3, <1>4, <1>5, <1>7, <1>16, <3>1
  <2>2. CASE r.reads # "never"
    <3>1. Stay(h, "wait")
      BY <1>16, <2>2 DEF Sent
    <3> QED
      BY <1>0, <1>4, <1>16, <3>1 DEF Stay, Heard, Filtered, Req, Request, TypeOK
  <2> QED
    BY <2>1, <2>2
<1>17. CASE Write(h)
  <2> DEFINE m == [id |-> r.id, cmd |-> r.cmd, from |-> r.from, by |-> h]
  <2>1. /\ Sent(h) /\ pc[h] = "ready" /\ r.asks /\ tx' = Append(tx, m) /\ owed' = owed
    BY <1>17 DEF Write
  <2>2. m \in Asked
    BY <1>1, <2>1 DEF Requests, Asked
  <2>3. Asks(m.id, m.cmd)
    BY <1>1, <2>1 DEF Asks, Req, Request
  <2>4. Genuine(tx)'
    <3> HIDE DEF m
    <3> QED
      BY <1>0, <2>1, <2>2, <2>3, GenuineQueues DEF AInv, TypeOK
  <2>5. \A g \in Hosts : Heard(g)'
    BY <1>16, <2>1, OthersHeard DEF AInv
  <2> QED
    BY <1>0, <2>1, <2>4, <2>5 DEF AInv
<1>18. CASE WriteFails(h)
  <2>1. CASE r.anyway
    BY <1>6, <1>16, <1>18, <2>1 DEF WriteFails
  <2>2. CASE ~r.anyway
    BY <1>5, <1>6, <1>7, <1>8, <1>18, <2>2 DEF WriteFails
  <2> QED
    BY <2>1, <2>2
<1> QED
  BY <1>9, <1>10, <1>11, <1>12, <1>13, <1>14, <1>15, <1>17, <1>18 DEF Step

LEMMA BusHeard ==
  ASSUME AInv, Send \/ \E n \in Nodes : Answer(n) \/ Lose(n)
  PROVE  AInv'
<1>0. IInv' /\ TypeOK
  BY BusInv DEF AInv, IInv
<1>1. CASE Send
  <2> DEFINE m == Head(tx)  f == [id |-> m.id, cmd |-> m.cmd, tag |-> 0, reply |-> FALSE]
  <2>1. /\ tx # <<>> /\ tx' = Tail(tx) /\ UNCHANGED <<prog, at, pc>>
        /\ Deliver(f, Hosts \ {m.by})
    BY <1>1 DEF Send
  <2>2. m \in Asked /\ tx \in Seq(Asked) /\ Asks(m.id, m.cmd) /\ Genuine(Tail(tx))
    BY <1>0, <2>1, GenuineQueues DEF AInv, TypeOK
  <2>3. f \in [id : Int, cmd : STRING, tag : Int, reply : BOOLEAN] /\ Known(f)
    BY <2>2 DEF Asked, Known
  <2>4. \A g \in Hosts : Heard(g)'
    <3> HIDE DEF f, m
    <3> QED
      BY <1>0, <2>1, <2>3, DeliverHeard DEF AInv
  <2>5. \A n \in Nodes : Genuine(owed[n])'
    <3>1. \/ m.id \in Nodes /\ owed' = [owed EXCEPT ![m.id] = Append(@, m)]
          \/ owed' = owed
      BY <1>1 DEF Send
    <3> HIDE DEF m
    <3>2. \A n \in Nodes : owed[n] \in Seq(Asked) /\ Genuine(owed[n])
      BY <1>0 DEF AInv, TypeOK
    <3>3. ASSUME NEW n \in Nodes PROVE Genuine(Append(owed[n], m))
      BY <2>2, <3>2, GenuineQueues
    <3>4. ASSUME NEW n \in Nodes PROVE owed'[n] \in {owed[n], Append(owed[n], m)}
      BY <1>0, <3>1 DEF TypeOK
    <3> QED
      BY <3>2, <3>3, <3>4
  <2> QED
    BY <1>0, <2>1, <2>2, <2>4, <2>5 DEF AInv
<1>2. ASSUME NEW n \in Nodes, owed[n] # <<>>, tx' = tx, owed' = [owed EXCEPT ![n] = Tail(@)]
      PROVE  /\ Head(owed[n]) \in Asked
             /\ Genuine(tx)' /\ \A k \in Nodes : Genuine(owed[k])'
  BY <1>0, <1>2, GenuineQueues DEF AInv, TypeOK
<1>3. ASSUME NEW n \in Nodes, Answer(n) PROVE AInv'
  <2> DEFINE m == Head(owed[n])
  <2>0. PICK cmd \in {m.cmd, Short} :
          Deliver([id |-> m.from, cmd |-> cmd, tag |-> m.from, reply |-> TRUE], Hosts)
    BY <1>3 DEF Answer
  <2> DEFINE f == [id |-> m.from, cmd |-> cmd, tag |-> m.from, reply |-> TRUE]
  <2>1. /\ owed[n] # <<>> /\ tx' = tx /\ owed' = [owed EXCEPT ![n] = Tail(@)]
        /\ UNCHANGED <<prog, at, pc>> /\ Deliver(f, Hosts)
    BY <1>3, <2>0 DEF Answer
  <2>2. m \in Asked
    BY <1>2, <2>1
  <2>3. f \in [id : Int, cmd : STRING, tag : Int, reply : BOOLEAN] /\ Known(f)
    <3>1. m.cmd \in STRING /\ m.from \in Int
      BY <2>2 DEF Asked
    <3>2. Short \in STRING
      BY SizesOK
    <3> HIDE DEF m
    <3> QED
      BY <2>0, <3>1, <3>2 DEF Known
  <2>4. \A g \in Hosts : Heard(g)'
    <3> HIDE DEF f, m
    <3> QED
      BY <1>0, <2>1, <2>3, DeliverHeard DEF AInv
  <2> QED
    BY <1>0, <1>2, <2>1, <2>4 DEF AInv
<1>4. ASSUME NEW n \in Nodes, Lose(n) PROVE AInv'
  BY <1>0, <1>2, <1>4, OthersHeard DEF Lose, host, AInv
<1> QED
  BY <1>1, <1>3, <1>4

(* A program of can/socketcan that compares bytes 4 and 7 of a frame with  *)
(* what it asked takes an answer to that command for its answer, and one   *)
(* of the node it asked unless it came between bind and setsockopt,        *)
(* whatever the other programs on the bus ask.                             *)
THEOREM AnswersChecked == Spec => []CheckedAnswer
<1>1. Init => AInv
  <2> SUFFICES ASSUME Init PROVE AInv
    OBVIOUS
  <2>1. tx = <<>> /\ (\A n \in Nodes : owed[n] = <<>>) /\ \A h \in Hosts : queue[h] = <<>>
    BY DEF Init
  <2> QED
    BY <2>1, InitInv DEF AInv, Genuine, Heard
<1>2. AInv /\ [Next]_vars => AInv'
  <2> SUFFICES ASSUME AInv, [Next]_vars PROVE AInv'
    OBVIOUS
  <2>1. CASE UNCHANGED vars
    BY <2>1, NextInv, OthersHeard DEF vars, host, AInv
  <2> QED
    BY <2>1, StepHeard, BusHeard DEF Next
<1> QED
  BY <1>1, <1>2, HeardAreAnswers, PTL DEF Spec
=============================================================================
