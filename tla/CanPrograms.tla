----------------------------- MODULE CanPrograms -----------------------------
(***************************************************************************)
(* The scripts of the programs in can/socketcan for CanHost.  A position   *)
(* is a phase of the program, a node and a counter; lap names the last     *)
(* request the loop of the program makes to each of its nodes.  The sleeps *)
(* between rounds and the printing are left out.                           *)
(***************************************************************************)
EXTENDS Integers

CONSTANTS
  N,         \* argv[1], the number of nodes or the node
  F,         \* argv[2] of the programs that have one, the identifier to filter
  Words,     \* words of a chip identifier, 3
  Colours,   \* 3
  Levels,    \* luminances of a colour, 11 and 9
  Scales,    \* nodes with a scale factor, 4
  Ids,       \* identifiers on the bus
  End        \* where a program ends, as in CanHost

\* A round of its own socket: filter, request, read without end, close.
Ask(n, cmd, next, brk) ==
  [opens |-> TRUE, asks |-> TRUE, id |-> n, cmd |-> cmd, from |-> n, passes |-> {n},
   reads |-> "ever", checked |-> FALSE, closes |-> TRUE, anyway |-> FALSE,
   then |-> {next}, fail |-> {brk}, late |-> {End}, err |-> {End}, nofd |-> {End}]

\* One round of a program that keeps its socket.
Keep(r, first) == [r EXCEPT !.opens = first, !.closes = FALSE]

Again == <<"again", 0, 0>>

\* The rounds of a program that keeps one socket: the first opens it.
OneSocket(r) ==
  [start |-> <<"first", 0, 0>>,
   lap |-> [n \in {r.id} |-> Again],
   at |-> [p \in {<<"first", 0, 0>>, Again} |-> Keep(r, p # Again)]]

-----------------------------------------------------------------------------
(* can_Cdatabox.c.  CAN_detection_check has no return at its end, so main  *)
(* goes on or ends with whatever it finds in the result.                   *)
DetectNext(n, first) == IF n < N THEN {<<"detect", n + 1, 0>>} ELSE {first, End}

Detect(n, first) ==
  [Ask(n, "weight", End, End) EXCEPT
     !.reads = "select", !.then = DetectNext(n, first), !.fail = {first, End}]

\* The three words of the chip identifier; a failed write goes on with the weight.
ChipRequest(n, w) ==
  [Ask(n, "chip", IF w < Words THEN <<"chip", n, w + 1>> ELSE <<"weight", n, 0>>,
       <<"weight", n, 0>>) EXCEPT !.checked = TRUE]

\* A failed write leaves the loop over the nodes, which starts again.
WeightRequest(n) ==
  [Ask(n, "weight", <<"rgb", n, 1>>, <<"chip", 1, 1>>) EXCEPT !.checked = TRUE]

AfterNode(n) == <<"chip", IF n < N THEN n + 1 ELSE 1, 1>>

\* All luminances of a colour; a failed write goes on with the next colour.
RgbRequest(n, k) ==
  LET colour == (k - 1) \div Levels
      After(j) == IF j <= Colours * Levels THEN <<"rgb", n, j>> ELSE AfterNode(n)
  IN [Ask(n, "rgb", After(k + 1), After((colour + 1) * Levels + 1)) EXCEPT !.checked = TRUE]

can_Cdatabox ==
  [start |-> <<"detect", 1, 0>>,
   lap |-> [n \in 1 .. N |-> <<"rgb", n, Colours * Levels>>],
   at |-> [p \in {<<phase, n, 0>> : phase \in {"detect", "weight"}, n \in 1 .. N}
               \cup {<<"chip", n, w>> : n \in 1 .. N, w \in 1 .. Words}
               \cup {<<"rgb", n, k>> : n \in 1 .. N, k \in 1 .. Colours * Levels} |->
     CASE p[1] = "detect" -> Detect(p[2], <<"chip", 1, 1>>)
       [] p[1] = "chip"   -> ChipRequest(p[2], p[3])
       [] p[1] = "weight" -> WeightRequest(p[2])
       [] p[1] = "rgb"    -> RgbRequest(p[2], p[3])]]

-----------------------------------------------------------------------------
\* canstm32Cdatabox.c: the same detection, then the weight of every node in turn.
canstm32Cdatabox ==
  [start |-> <<"detect", 1, 0>>, lap |-> [n \in 1 .. N |-> <<"ask", n, 0>>],
   at |-> [p \in {<<phase, n, 0>> : phase \in {"detect", "ask"}, n \in 1 .. N} |->
     IF p[1] = "detect" THEN Detect(p[2], <<"ask", 1, 0>>)
     ELSE Ask(p[2], "weight", <<"ask", IF p[2] < N THEN p[2] + 1 ELSE 1, 0>>, <<"ask", 1, 0>>)]]

\* canstm32communication.c: the loop stops before the number it was given.
canstm32communication ==
  [start |-> <<"ask", 1, 0>>, lap |-> [n \in 1 .. N - 1 |-> <<"ask", n, 0>>],
   at |-> [p \in {<<"ask", n, 0>> : n \in 1 .. N - 1} |->
     Ask(p[2], "test", <<"ask", IF p[2] < N - 1 THEN p[2] + 1 ELSE 1, 0>>, <<"ask", 1, 0>>)]]

(* can_single_Cdatabox.c: one node.  The detection waits for the answer    *)
(* even when its write failed.                                             *)
can_single_Cdatabox ==
  LET Weigh(first) == Keep(Ask(N, "weight", Again, End), first)
  IN [start |-> <<"detect", 0, 0>>, lap |-> [n \in {N} |-> Again],
      at |-> [p \in {<<"detect", 0, 0>>, <<"first", 0, 0>>, Again} |->
        IF p[1] = "detect"
          THEN [Ask(N, "weight", End, End) EXCEPT
                  !.reads = "select", !.anyway = TRUE, !.then = {<<"first", 0, 0>>, End}]
          ELSE Weigh(p[1] = "first")]]

\* candetection.c: the descriptor is put in fdset once, before the loop.
candetection ==
  OneSocket([Ask(N, "test", Again, End) EXCEPT
               !.passes = {F}, !.reads = "select", !.late = {Again}])

\* cansendrcvfilter.c
cansendrcvfilter == OneSocket([Ask(N, "test", Again, End) EXCEPT !.passes = {F}])

\* cansendrcv.c: no filter, node 1, and it reads although the write failed.
cansendrcv ==
  OneSocket([Ask(1, "test", Again, End) EXCEPT !.passes = Ids, !.anyway = TRUE])

\* canfilter.c: 0xffff cut to the eleven bits of the mask.
canfilter ==
  OneSocket([Ask(0, "none", Again, End) EXCEPT
               !.passes = Ids \cap {2047}, !.asks = FALSE])

\* canrcv.c
canrcv == OneSocket([Ask(0, "none", Again, End) EXCEPT !.passes = Ids, !.asks = FALSE])

\* multicansendrcv.c: no filter, node 2, a socket for every round.
multicansendrcv ==
  LET ask == <<"ask", 2, 0>>
  IN [start |-> ask, lap |-> [n \in {2} |-> ask],
      at |-> [p \in {ask} |->
        [Ask(2, "test", ask, End) EXCEPT !.passes = Ids, !.anyway = TRUE]]]

\* cansend.c: two frames to identifier 0, nothing is read.
cansend ==
  LET Put(k, next) == [Ask(0, "test", <<"put", 0, next>>, End) EXCEPT
                         !.passes = Ids, !.anyway = TRUE, !.reads = "never",
                         !.opens = (k = 1), !.closes = (k = 2)]
  IN [start |-> <<"put", 0, 1>>, lap |-> [n \in {0} |-> <<"put", 0, 2>>],
      at |-> [p \in {<<"put", 0, 1>>, <<"put", 0, 2>>} |-> Put(p[3], 3 - p[3])]]

-----------------------------------------------------------------------------
(* The programs of Cdataboxcan, for nodes that answer in another layout.   *)
(* main of Cdatabox_pressureRGB.c calls again whatever the result, because *)
(* it compares an unsigned with zero.                                      *)
Calls(cmd, times) ==
  LET first == <<cmd, N, 1>>
      next(k) == IF k < times THEN <<cmd, N, k + 1>> ELSE first
  IN [start |-> first, lap |-> [n \in {N} |-> <<cmd, N, times>>],
      at |-> [p \in {<<cmd, N, k>> : k \in 1 .. times} |->
        [Ask(N, cmd, next(p[3]), first) EXCEPT !.err = {first}, !.nofd = {first}]]]

pressureRGB_p == Calls("old_weight", 1)

pressureRGB_r == Calls("old_rgb", Levels)

pressureRGB_d == Calls("old_read_rgb", Levels)

(* Cdataboxweight.c: a weight that could not be read is taken for -1, or   *)
(* for 1 when there is no socket; the first of every node is its zero.     *)
WeighOnce(n, next) ==
  [Ask(n, "old_weight", next, next) EXCEPT !.err = {next}, !.nofd = {next}]

Cdataboxweight ==
  LET again == <<"ask", N, 1>>
  IN [start |-> <<"zero", N, 0>>, lap |-> [n \in {N} |-> again],
      at |-> [p \in {<<"zero", N, 0>>, again} |-> WeighOnce(N, again)]]

\* The same with four scale factors: nodes 1 to Scales.
Cdataboxweight_all ==
  LET positions == {<<phase, n, 0>> : phase \in {"zero", "ask"}, n \in 1 .. Scales}
      next(p) == IF p[2] < Scales THEN <<p[1], p[2] + 1, 0>> ELSE <<"ask", 1, 0>>
  IN [start |-> <<"zero", 1, 0>>, lap |-> [n \in 1 .. Scales |-> <<"ask", n, 0>>],
      at |-> [p \in positions |-> WeighOnce(p[2], next(p))]]

\* CdataboxsetCANID.c: asks identifier 0, and the answer bears the new one.
CdataboxsetCANID ==
  LET set == <<"set", 0, 0>>
  IN [start |-> set, lap |-> <<>>,
      at |-> [p \in {set} |-> [Ask(0, "old_set", End, End) EXCEPT !.passes = {N}, !.from = N]]]

\* Cdataboxsendrcv.c
Cdataboxsendrcv ==
  LET ask == <<"ask", N, 0>>
  IN [start |-> ask, lap |-> [n \in {N} |-> ask], at |-> [p \in {ask} |-> Ask(N, "old_test", ask, End)]]
==============================================================================
