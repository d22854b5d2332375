---------------------------- MODULE MCTimerQueue ----------------------------
(* TimerQueue for TLC: a periodic and a one-shot event, named as in main.c;
   the period is a rest of a slot, or zero at the end of one. *)
EXTENDS TimerQueue

CONSTANTS slot, perf

MCName == {slot, perf}

MCKind == {[name |-> slot, periodic |-> TRUE,  delay |-> 0],
           [name |-> slot, periodic |-> TRUE,  delay |-> 1],
           [name |-> perf, periodic |-> FALSE, delay |-> 2]}
=============================================================================
