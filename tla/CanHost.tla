------------------------------- MODULE CanHost -------------------------------
(***************************************************************************)
(* The programs of the ASM9260 board that talk to the CAN nodes through    *)
(* raw sockets.  All are variations of one round: open and bind a socket,  *)
(* set its filter, write a request, wait in read or for a second in        *)
(* select, read one frame, look at it, close.  What differs is written     *)
(* down in CanPrograms as a script: a request for every position of the    *)
(* program, with the positions the program goes on from when the round     *)
(* succeeds, the write fails, the second is over, the read fails, or there *)
(* is no socket to be had.                                                 *)
(*                                                                         *)
(* The lines are those of the first round of can_Cdatabox.c; the other     *)
(* programs repeat them.  The sockets, the queue of the device and the     *)
(* nodes are external: a frame sent reaches every other socket on the      *)
(* device whose filter passes it (see LocalEcho) and its node, and either  *)
(* the request or its answer may be lost.  Requests have eight bytes; how  *)
(* many an answer has is up to the node.                                   *)
(***************************************************************************)
EXTENDS Integers, Sequences, FiniteSets

CONSTANTS
  Hosts,      \* running programs
  Nodes,      \* identifiers of the nodes on the bus
  Script,     \* what each program does, from CanPrograms
  Pairings,   \* which programs run together
  End,        \* the position of a program that has ended
  Nobody,
  Short,      \* in place of the command of a frame that ends before its byte 7
  MaxFds,     \* descriptors each process may have open
  TxLen,      \* frames the queue of the device holds
  RcvLen,     \* frames a socket holds
  OwedLen     \* requests a node holds

Requests(positions) ==
  [opens : BOOLEAN, asks : BOOLEAN, id : Int, cmd : STRING \ {Short}, from : Int, passes : SUBSET Int,
   reads : {"ever", "select", "never"}, checked : BOOLEAN, closes : BOOLEAN, anyway : BOOLEAN,
   then : SUBSET positions, fail : SUBSET positions, late : SUBSET positions,
   err : SUBSET positions, nofd : SUBSET positions]

(* A program opens its next socket after it closed or abandoned the last,  *)
(* and keeps its filter and its way of reading as long as it keeps one.    *)
OneSocketAtATime(script, r) ==
  /\ \A q \in (r.fail \cup r.err \cup r.nofd) \ {End} : script.at[q].opens
  /\ \A q \in (r.then \cup r.late) \ {End} :
       /\ script.at[q].opens = r.closes
       /\ ~r.closes => script.at[q].passes = r.passes /\ script.at[q].reads = r.reads

(* The programs that wait without end are given the node they ask as the   *)
(* one to filter.                                                          *)
FilterPassesAnswer(r) == r.asks /\ r.reads = "ever" => r.from \in r.passes

ASSUME ScriptsOK ==
  /\ Pairings \subseteq [Hosts -> DOMAIN Script]
  /\ \A g \in DOMAIN Script :
       LET positions == DOMAIN Script[g].at IN
         /\ Script[g].start \in positions /\ End \notin positions
         /\ Script[g].at[Script[g].start].opens
         /\ \A p \in positions :
              /\ Script[g].at[p] \in Requests(positions \cup {End})
              /\ OneSocketAtATime(Script[g], Script[g].at[p])
              /\ FilterPassesAnswer(Script[g].at[p])

\* Some program asks this node this.
Asks(id, cmd) ==
  \E g \in DOMAIN Script : \E p \in DOMAIN Script[g].at :
    LET r == Script[g].at[p] IN r.asks /\ r.id = id /\ r.cmd = cmd

(* A program that checks its frames filters the node it asks.  Byte 4 of a *)
(* request is zero, and the identifiers given to the programs are not: no  *)
(* request for what it asks goes to identifier 0.                          *)
ASSUME ChecksOK ==
  \A g \in DOMAIN Script : \A p \in DOMAIN Script[g].at :
    LET r == Script[g].at[p] IN r.checked => r.passes = {r.id} /\ ~Asks(0, r.cmd)

ASSUME SizesOK ==
  /\ MaxFds \in [Hosts -> Nat]
  /\ {TxLen, RcvLen, OwedLen} \subseteq Nat /\ RcvLen > 0
  /\ Nodes \subseteq Int /\ Nobody \notin Hosts /\ Short \in STRING

VARIABLES
  prog,      \* the program each host runs
  at,        \* its position in its script
  pc,        \* its place in the round
  fds,       \* descriptors it has open
  queue,     \* frames its current socket holds
  watching,  \* whether its socket is in fdset
  tx,        \* requests in the queue of the device
  owed,      \* requests each node has yet to answer
  missed,    \* hosts that asked through their socket what was lost
  failed     \* calls that failed and made a program go on without the socket

host == <<prog, at, pc, fds, queue, watching>>
vars == <<host, tx, owed, missed, failed>>

Request(h, p) == Script[prog[h]].at[p]
Req(h) == Request(h, at[h])

Init ==
  /\ prog \in Pairings
  /\ at = [h \in Hosts |-> Script[prog[h]].start]
  /\ pc = [h \in Hosts |-> "next"]
  /\ fds = [h \in Hosts |-> 0]
  /\ queue = [h \in Hosts |-> <<>>]
  /\ watching = [h \in Hosts |-> FALSE]
  /\ tx = <<>>
  /\ owed = [n \in Nodes |-> <<>>]
  /\ missed = {}
  /\ failed = [h \in Hosts |-> 0]

(* The round is over: the program goes on from one of places.  A program   *)
(* that ends loses its descriptors, one that closes gives one back, and    *)
(* can_fd is assigned the next socket either way.                          *)
Leave(h, places, closes, rest) ==
  \E p \in places :
    /\ at' = [at EXCEPT ![h] = p]
    /\ pc' = [pc EXCEPT ![h] = IF p = End THEN "end"
                               ELSE IF Request(h, p).opens THEN "next" ELSE "ready"]
    /\ fds' = [fds EXCEPT ![h] = IF p = End THEN 0 ELSE IF closes THEN @ - 1 ELSE @]
    /\ queue' = [queue EXCEPT ![h] = IF pc'[h] = "ready" THEN rest ELSE <<>>]
    /\ UNCHANGED prog

Stay(h, where) == pc' = [pc EXCEPT ![h] = where] /\ UNCHANGED <<prog, at, fds, queue>>

\* The program goes on without the socket it could not use.
Abandon(h) ==
  failed' = [failed EXCEPT ![h] = IF pc'[h] = "end" THEN @ ELSE @ + 1]

\* The requests of a socket that is gone are nobody's.
Forget(s, h) == [i \in DOMAIN s |-> IF s[i].by = h THEN [s[i] EXCEPT !.by = Nobody] ELSE s[i]]

\* Mutant: a process may have one descriptor more than its limit.
Socket_OneMore(h) ==
  /\ pc[h] = "next" /\ fds[h] <= MaxFds[h]
  /\ pc' = [pc EXCEPT ![h] = "opened"]
  /\ fds' = [fds EXCEPT ![h] = @ + 1]
  /\ watching' = [watching EXCEPT ![h] = TRUE]
  /\ tx' = Forget(tx, h)
  /\ owed' = [n \in Nodes |-> Forget(owed[n], h)]
  /\ missed' = missed \ {h}
  /\ UNCHANGED <<prog, at, queue, failed>>

Socket(h) ==
  /\ pc[h] = "next" /\ fds[h] < MaxFds[h]
  /\ pc' = [pc EXCEPT ![h] = "opened"]
  /\ fds' = [fds EXCEPT ![h] = @ + 1]
  /\ watching' = [watching EXCEPT ![h] = TRUE]
  /\ tx' = Forget(tx, h)
  /\ owed' = [n \in Nodes |-> Forget(owed[n], h)]
  /\ missed' = missed \ {h}
  /\ UNCHANGED <<prog, at, queue, failed>>

NoDescriptor(h) ==
  /\ pc[h] = "next" /\ fds[h] = MaxFds[h]
  /\ Leave(h, Req(h).nofd, FALSE, <<>>)
  /\ UNCHANGED <<watching, tx, owed, missed, failed>>

\* SIOCGIFINDEX and bind: from here on frames arrive.
Bind(h) ==
  /\ pc[h] = "opened"
  /\ Stay(h, "bound")
  /\ UNCHANGED <<watching, tx, owed, missed, failed>>

\* There is no such interface, or it is not up: the program returns as if it
\* had got no descriptor, and does not close the one it has.
BindFails(h) ==
  /\ pc[h] = "opened"
  /\ Leave(h, Req(h).nofd, FALSE, <<>>)
  /\ Abandon(h)
  /\ UNCHANGED <<watching, tx, owed, missed>>

\* setsockopt: frames already queued stay.
Filter(h) ==
  /\ pc[h] = "bound"
  /\ Stay(h, "ready")
  /\ UNCHANGED <<watching, tx, owed, missed, failed>>

\* What follows the write: a program that only sends is done with it.
Sent(h) ==
  IF Req(h).reads = "never" THEN Leave(h, Req(h).then, Req(h).closes, queue[h])
                            ELSE Stay(h, "wait")

Write(h) ==
  /\ pc[h] = "ready" /\ Req(h).asks
  /\ Len(tx) < TxLen
  /\ tx' = Append(tx, [id |-> Req(h).id, cmd |-> Req(h).cmd, from |-> Req(h).from, by |-> h])
  /\ Sent(h)
  /\ UNCHANGED <<watching, owed, missed, failed>>

\* Mutant: a failed write closes the socket before it goes on.
WriteFails_Close(h) ==
  /\ pc[h] = "ready" /\ Req(h).asks
  /\ \/ Req(h).anyway /\ Sent(h) /\ missed' = missed \cup {h}
     \/ ~Req(h).anyway /\ Leave(h, Req(h).fail, TRUE, <<>>) /\ UNCHANGED missed
  /\ UNCHANGED <<watching, tx, owed, failed>>

\* The queue of the device is full, or the interface is down.
WriteFails(h) ==
  /\ pc[h] = "ready" /\ Req(h).asks
  /\ \/ /\ Req(h).anyway /\ Sent(h)
        /\ missed' = missed \cup {h}
        /\ UNCHANGED failed
     \/ /\ ~Req(h).anyway /\ Leave(h, Req(h).fail, FALSE, <<>>)
        /\ Abandon(h)
        /\ UNCHANGED missed
  /\ UNCHANGED <<watching, tx, owed>>

Listen(h) ==
  /\ pc[h] = "ready" /\ ~Req(h).asks
  /\ Stay(h, "wait")
  /\ UNCHANGED <<watching, tx, owed, missed, failed>>

Readable(h) == queue[h] # <<>> /\ (Req(h).reads = "select" => watching[h])

\* Mutant: the socket is not closed after the frame was read.
Read_NoClose(h) ==
  /\ pc[h] = "wait" /\ Readable(h)
  /\ Leave(h, Req(h).then, FALSE, Tail(queue[h]))
  /\ UNCHANGED <<watching, tx, owed, missed, failed>>

Read(h) ==
  /\ pc[h] = "wait" /\ Readable(h)
  /\ Leave(h, Req(h).then, Req(h).closes, Tail(queue[h]))
  /\ UNCHANGED <<watching, tx, owed, missed, failed>>

\* select clears fdset when the second is over.
Timeout(h) ==
  /\ pc[h] = "wait" /\ Req(h).reads = "select" /\ ~Readable(h)
  /\ Leave(h, Req(h).late, Req(h).closes, queue[h])
  /\ watching' = [watching EXCEPT ![h] = FALSE]
  /\ UNCHANGED <<tx, owed, missed, failed>>

SelectFails(h) ==
  /\ pc[h] = "wait" /\ Req(h).reads = "select"
  /\ Leave(h, Req(h).then, Req(h).closes, queue[h])
  /\ UNCHANGED <<watching, tx, owed, missed, failed>>

\* The interface went down: read fails, whatever the socket holds.
ReadFails(h) ==
  /\ pc[h] = "wait"
  /\ Leave(h, Req(h).err, FALSE, <<>>)
  /\ Abandon(h)
  /\ UNCHANGED <<watching, tx, owed, missed>>

-----------------------------------------------------------------------------
\* Mutant: the filter does not pass the node that is asked.
Passes_OtherNode(h, f) == pc[h] = "bound" \/ f.id \in Req(h).passes \ {Req(h).id}

\* A socket without a filter yet passes everything.
Passes(h, f) == pc[h] = "bound" \/ f.id \in Req(h).passes

Deliver(f, to) ==
  queue' = [h \in Hosts |->
    IF /\ h \in to /\ pc[h] \in {"bound", "ready", "wait"}
       /\ Passes(h, f) /\ Len(queue[h]) < RcvLen
      THEN Append(queue[h], [id |-> f.id, cmd |-> f.cmd, tag |-> f.tag,
                             reply |-> f.reply, early |-> pc[h] = "bound"])
      ELSE queue[h]]

\* Byte 4 of a request is zero, of an answer the identifier of the node.
Send ==
  /\ tx # <<>>
  /\ LET m == Head(tx) IN
       /\ tx' = Tail(tx)
       /\ Deliver([id |-> m.id, cmd |-> m.cmd, tag |-> 0, reply |-> FALSE], Hosts \ {m.by})
       /\ \/ /\ m.id \in Nodes /\ Len(owed[m.id]) < OwedLen
             /\ owed' = [owed EXCEPT ![m.id] = Append(@, m)]
             /\ UNCHANGED missed
          \/ /\ missed' = missed \cup ({m.by} \cap Hosts)
             /\ UNCHANGED owed
  /\ UNCHANGED <<prog, at, pc, fds, watching, failed>>

Answer(n) ==
  /\ owed[n] # <<>>
  /\ LET m == Head(owed[n]) IN \E cmd \in {m.cmd, Short} :
       Deliver([id |-> m.from, cmd |-> cmd, tag |-> m.from, reply |-> TRUE], Hosts)
  /\ owed' = [owed EXCEPT ![n] = Tail(@)]
  /\ UNCHANGED <<prog, at, pc, fds, watching, tx, missed, failed>>

Lose(n) ==
  /\ owed[n] # <<>>
  /\ missed' = missed \cup ({Head(owed[n]).by} \cap Hosts)
  /\ owed' = [owed EXCEPT ![n] = Tail(@)]
  /\ UNCHANGED <<host, tx, failed>>

Step(h) ==
  \/ Socket(h) \/ NoDescriptor(h) \/ Bind(h) \/ Filter(h) \/ Write(h) \/ WriteFails(h)
  \/ Listen(h) \/ Read(h) \/ Timeout(h)

Next ==
  \/ \E h \in Hosts : Step(h) \/ BindFails(h) \/ SelectFails(h) \/ ReadFails(h)
  \/ Send
  \/ \E n \in Nodes : Answer(n) \/ Lose(n)

Spec == Init /\ [][Next]_vars

(* The processes are scheduled, and a select without an answer ends after  *)
(* its second; the driver sends what it was given; a node answers, or its  *)
(* answer is lost.                                                         *)
FairSpec ==
  /\ Spec
  /\ \A h \in Hosts : WF_vars(Step(h))
  /\ WF_vars(Send)
  /\ \A n \in Nodes : WF_vars(Answer(n) \/ Lose(n))

-----------------------------------------------------------------------------
Positions == (UNION {DOMAIN Script[g].at : g \in DOMAIN Script}) \cup {End}

Places == {"next", "opened", "bound", "ready", "wait", "end"}

Frames == [id : Int, cmd : STRING, tag : Int, reply : BOOLEAN, early : BOOLEAN]

Asked == [id : Int, cmd : STRING, from : Int, by : Hosts \cup {Nobody}]

(* Every host is at a position of its own script, and the queues hold      *)
(* frames.                                                                 *)
TypeOK ==
  /\ prog \in Pairings
  /\ at \in [Hosts -> Positions]
  /\ \A h \in Hosts : at[h] \in DOMAIN Script[prog[h]].at \cup {End}
  /\ pc \in [Hosts -> Places] /\ \A h \in Hosts : pc[h] = "end" <=> at[h] = End
  /\ fds \in [Hosts -> Nat] /\ failed \in [Hosts -> Nat]
  /\ \A h \in Hosts : fds[h] <= MaxFds[h] /\ failed[h] <= MaxFds[h]
  /\ queue \in [Hosts -> Seq(Frames)] /\ watching \in [Hosts -> BOOLEAN]
  /\ tx \in Seq(Asked) /\ Len(tx) <= TxLen
  /\ owed \in [Nodes -> Seq(Asked)] /\ missed \subseteq Hosts

Mine(s, h) == \E i \in DOMAIN s : s[i].by = h

HasSocket(h) == pc[h] \in {"opened", "bound", "ready", "wait"}

\* Mutant: the identifier in the data is not compared with the one of the frame.
Accepts_CmdOnly(r, f) == r.checked /\ f.cmd = r.cmd

\* The check of the programs that have one: byte 7 and byte 4.  Only the bytes
\* a frame has are copied: those a short one lacks are still those of the round
\* before, so it may be taken for an answer.
Accepts(r, f) == r.checked /\ (f.cmd = Short \/ (f.cmd = r.cmd /\ f.tag = f.id))

(* What a program that checks its frames takes for the answer is an answer *)
(* to that command, unless it is too short to tell, and it comes from the  *)
(* node the program asked unless it arrived between bind and setsockopt.   *)
(* The requests of other programs to the same node pass the filter too.    *)
CheckedAnswer ==
  \A h \in Hosts : pc[h] = "wait" =>
    \A i \in DOMAIN queue[h] :
      LET r == Req(h)  f == queue[h][i]
      IN Accepts(r, f) =>
           f.reply /\ f.cmd \in {r.cmd, Short} /\ (f.id = r.id \/ f.early)

(* A program that asked waits in read without end only for something that  *)
(* is still under way, or that was lost: never because its own filter,     *)
(* the socket of its last round or another program took its answer away.   *)
WaitHasCause ==
  \A h \in Hosts :
    /\ pc[h] = "wait" /\ Req(h).reads = "ever" /\ Req(h).asks
    /\ queue[h] = <<>>
    => \/ Mine(tx, h) \/ h \in missed
       \/ \E n \in Nodes : Mine(owed[n], h)

(* Descriptors other than the one in use were left open by an ioctl, bind, *)
(* write or read that failed: rounds that succeed leak nothing, however    *)
(* many, and a failure leaks one.                                          *)
LeaksAreFailures ==
  \A h \in Hosts : at[h] # End =>
    fds[h] = failed[h] + (IF HasSocket(h) THEN 1 ELSE 0)

\* Ended, out of descriptors, or waiting without end for what does not come.
Stuck(h) ==
  \/ at[h] = End
  \/ pc[h] = "next" /\ fds[h] = MaxFds[h]
  \/ /\ pc[h] = "wait" /\ Req(h).reads = "ever" /\ queue[h] = <<>>
     /\ Req(h).asks => h \in missed

(* A program comes round to every node of its loop again and again, until  *)
(* it is stuck.  A write or a bind that fails skips the nodes that are     *)
(* left, but it leaks a descriptor each time, so it cannot do so for ever. *)
NoNodeStarves ==
  \A h \in Hosts, n \in Nodes :
    []<>(LET lap == Script[prog[h]].lap IN n \in DOMAIN lap => at[h] = lap[n])
      \/ <>[]Stuck(h)
==============================================================================
