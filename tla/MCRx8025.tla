--------------------------- MODULE MCRx8025 ---------------------------
(* A small clock for TLC: seconds, minutes and hours 0..1, months 1..2. *)
EXTENDS Rx8025

MCFirst == [i \in Fields |-> IF i = N THEN 1 ELSE 0]
MCLast == [i \in Fields |-> IF i = N THEN 2 ELSE 1]
========================================================================
