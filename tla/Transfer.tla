------------------------------ MODULE Transfer ------------------------------
(***************************************************************************)
(* What the upgrade (user/upgrade_func.c) sees of the transfer of an image *)
(* to the MCU (user/mcu_boot.c), and relies on: once begun, and while the  *)
(* ESP runs, it ends only with the image delivered or with the failure on  *)
(* record.  McuBoot, which has the messages, and Upgrade, where a transfer *)
(* is one step, both implement it.                                         *)
(***************************************************************************)

VARIABLES
  up,                      \* the ESP runs
  in_boot,                 \* get_is_mcu_in_boot
  need_first,              \* get_is_mcu_need_upgrade_first, at the next boot if off
  delivered,               \* the image is in the MCU, or sent to it
  failed                   \* set_mcu_upgrade_result(CONNECT_ERR)
vars == <<up, in_boot, need_first>>

Init == ~in_boot /\ ~need_first

\* Also again, while one is under way.
Begin == up /\ in_boot' /\ need_first' /\ UNCHANGED up

Done == up /\ in_boot /\ need_first /\ ~need_first' /\ delivered' /\ UNCHANGED <<up, in_boot>>

GiveUp == up /\ in_boot /\ need_first /\ ~in_boot' /\ ~need_first' /\ failed' /\ UNCHANGED up

\* The power fails: at any point of a save, before it or after it.
Off == /\ up /\ ~up'
       /\ in_boot' => in_boot
       /\ need_first' => need_first
BeginOff == up /\ ~up' /\ need_first' /\ (in_boot' => in_boot)

\* A boot that is cut off when it has dropped the record, and one that is not:
\* what it finds under way it takes up, or waits to be asked for.
Forget == ~up /\ ~need_first' /\ UNCHANGED <<up, in_boot>>
Boot == /\ ~up /\ up'
        /\ need_first' => need_first
        /\ in_boot' => need_first'

Next == Begin \/ Done \/ GiveUp \/ Off \/ BeginOff \/ Forget \/ Boot
Spec == Init /\ [][Next]_vars
=============================================================================
