------------------------------ MODULE Install ------------------------------
(***************************************************************************)
(* What reprogramming the MCU promises: packages are programmed in order   *)
(* into an erased memory, and nothing but a complete image, or the one     *)
(* that was there before, is ever run.  user/mcu_boot.c implements it on   *)
(* the ESP's side of the UART (see McuBoot).                               *)
(***************************************************************************)
EXTENDS Naturals

CONSTANT Image          \* the packages of the image: 0 .. n - 1

VARIABLES mode, erased, got
vars == <<mode, erased, got>>

Init == mode \in {"app", "boot"} /\ erased = FALSE /\ got = {}

EnterBoot == mode = "app" /\ mode' = "boot" /\ UNCHANGED <<erased, got>>

Erase == /\ mode = "boot"
         /\ erased' = TRUE /\ got' = {}
         /\ UNCHANGED mode

\* Package k is programmed (again) only when everything before it is.
Program == \E k \in got' :
  /\ mode = "boot" /\ erased
  /\ got' = got \union {k}
  /\ \A j \in Image : j < k => j \in got
  /\ UNCHANGED <<mode, erased>>

Run == /\ mode = "boot"
       /\ erased => Image \subseteq got
       /\ mode' = "app"
       /\ UNCHANGED <<erased, got>>

Next == EnterBoot \/ Erase \/ Program \/ Run

Spec == Init /\ [][Next]_vars
=============================================================================
