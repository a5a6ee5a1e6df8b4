----------------------------- MODULE MCMcuBoot -----------------------------
(* Values of McuBoot's constants for TLC.                                  *)
EXTENDS McuBoot

\* Answers that come late, or messages that are lost and refused, but not both.
LateOrLossy ==
  {[loss |-> 0, nack |-> 0, crash |-> 1, request |-> 1, late |-> TRUE],
   [loss |-> 0, nack |-> 0, crash |-> 0, request |-> 2, late |-> TRUE],
   [loss |-> 1, nack |-> 1, crash |-> 2, request |-> 2, late |-> FALSE],
   [loss |-> 2, nack |-> 1, crash |-> 1, request |-> 1, late |-> FALSE]}

LateAndLossy == {[loss |-> 1, nack |-> 0, crash |-> 0, request |-> 1, late |-> TRUE]}
=============================================================================
