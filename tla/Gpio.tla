--------------------------------- MODULE Gpio ---------------------------------
(***************************************************************************)
(* The GPIO library as the character drivers use it.  A line belongs to    *)
(* whoever requested it first; a request for a line that is taken fails    *)
(* and changes nothing.  Nothing else is checked: gpio_free frees a line   *)
(* whoever owns it, and a line can be driven by whoever names it.          *)
(***************************************************************************)
CONSTANTS Lines, Nobody

VARIABLES
  owner,   \* of each line, or Nobody
  output,  \* whether the board drives the line
  level    \* it drives the line to, once it does

lineVars == <<owner, output, level>>

GpioInit ==
  /\ owner = [l \in Lines |-> Nobody]
  /\ output = [l \in Lines |-> FALSE]
  /\ level = [l \in Lines |-> 0]

gpio_set_value(l, v) ==
  level' = [level EXCEPT ![l] = v] /\ UNCHANGED <<owner, output>>

gpio_direction_output(l, v) ==
  /\ output' = [output EXCEPT ![l] = TRUE]
  /\ level' = [level EXCEPT ![l] = v]
  /\ UNCHANGED owner

gpio_direction_input(l) ==
  output' = [output EXCEPT ![l] = FALSE] /\ UNCHANGED <<owner, level>>

\* gpio_request_one with GPIOF_OUT_INIT_LOW or GPIOF_OUT_INIT_HIGH.
RequestOut(p, l, v) ==
  IF owner[l] = Nobody
    THEN /\ owner' = [owner EXCEPT ![l] = p]
         /\ output' = [output EXCEPT ![l] = TRUE]
         /\ level' = [level EXCEPT ![l] = v]
    ELSE UNCHANGED lineVars

\* gpio_request_one with GPIOF_DIR_IN.
RequestIn(p, l) ==
  IF owner[l] = Nobody
    THEN /\ owner' = [owner EXCEPT ![l] = p]
         /\ output' = [output EXCEPT ![l] = FALSE]
         /\ UNCHANGED level
    ELSE UNCHANGED lineVars

gpio_free(l) == owner' = [owner EXCEPT ![l] = Nobody] /\ UNCHANGED <<output, level>>
===============================================================================
