------------------------------ MODULE MCCanHost ------------------------------
(* The programs of CanPrograms two at a time, on a bus with three nodes:   *)
(* with one node to ask and rounds of two steps, and with two nodes and    *)
(* rounds of one; P3 has one of each.  The program that checks its frames  *)
(* runs alone on the bus (canfilter hears nothing), beside one that asks   *)
(* the same node the same, and beside one that is answered by another.     *)
EXTENDS CanHost, TLC

P1 == INSTANCE CanPrograms WITH
        N <- 1, F <- 1, Words <- 2, Colours <- 2, Levels <- 2, Scales <- 2, Ids <- Nodes

P2 == INSTANCE CanPrograms WITH
        N <- 2, F <- 2, Words <- 1, Colours <- 1, Levels <- 1, Scales <- 2, Ids <- Nodes

P3 == INSTANCE CanPrograms WITH
        N <- 1, F <- 1, Words <- 1, Colours <- 1, Levels <- 1, Scales <- 2, Ids <- Nodes

Scripts ==
  [can_Cdatabox_1 |-> P1!can_Cdatabox,
   can_Cdatabox_3 |-> P3!can_Cdatabox,
   canstm32Cdatabox_2 |-> P2!canstm32Cdatabox,
   canstm32communication_2 |-> P2!canstm32communication,
   can_single_Cdatabox_1 |-> P1!can_single_Cdatabox,
   candetection_2 |-> P2!candetection,
   cansendrcvfilter_1 |-> P1!cansendrcvfilter,
   cansendrcv_1 |-> P1!cansendrcv,
   canfilter_1 |-> P1!canfilter,
   canrcv_1 |-> P1!canrcv,
   multicansendrcv_1 |-> P1!multicansendrcv,
   cansend_1 |-> P1!cansend,
   pressureRGB_p_1 |-> P1!pressureRGB_p,
   pressureRGB_r_1 |-> P1!pressureRGB_r,
   pressureRGB_d_1 |-> P1!pressureRGB_d,
   Cdataboxweight_1 |-> P1!Cdataboxweight,
   Cdataboxweight_all_1 |-> P1!Cdataboxweight_all,
   CdataboxsetCANID_1 |-> P1!CdataboxsetCANID,
   CdataboxsetCANID_2 |-> P2!CdataboxsetCANID,
   Cdataboxsendrcv_1 |-> P1!Cdataboxsendrcv,
   Cdataboxsendrcv_2 |-> P2!Cdataboxsendrcv]

\* The same functions written out, for TLC to look up.
Table ==
  [g \in DOMAIN Scripts |-> [Scripts[g] EXCEPT !.at = @ @@ <<>>]] @@ <<>>

MCScript == Table

MCEnd == <<"end", 0, 0>>

CONSTANTS a, b

Pair(x, y) == (a :> x) @@ (b :> y)

Pairs ==
  {Pair("can_Cdatabox_1", "canfilter_1"),
   Pair("can_single_Cdatabox_1", "can_Cdatabox_3"),
   Pair("CdataboxsetCANID_2", "can_Cdatabox_3"),
   Pair("canstm32Cdatabox_2", "canfilter_1"),
   Pair("canstm32communication_2", "cansendrcv_1"),
   Pair("candetection_2", "Cdataboxsendrcv_2"),
   Pair("multicansendrcv_1", "canrcv_1"),
   Pair("cansendrcvfilter_1", "cansend_1"),
   Pair("Cdataboxweight_1", "pressureRGB_p_1"),
   Pair("pressureRGB_r_1", "canfilter_1"),
   Pair("pressureRGB_d_1", "canfilter_1"),
   Pair("Cdataboxweight_all_1", "canfilter_1"),
   Pair("CdataboxsetCANID_1", "Cdataboxsendrcv_1")}

MCPairings == Pairs

\* The second program of a pair has no descriptor left after one leak.
MCMaxFds == (a :> 2) @@ (b :> 1)
==============================================================================
