----------------------------- MODULE MCUpgrade -----------------------------
(* Values of Upgrade's constants for TLC.                                  *)
EXTENDS Upgrade

\* Two upgrades, and each fault once, or some of them with an MCU that answers
\* what it is no longer asked.
Faults ==
  {[request |-> 2, corrupt |-> 1, crash |-> 1, drop |-> 1, lost |-> 1, key |-> 1, renew |-> 1,
    late |-> 0],
   [request |-> 2, corrupt |-> 1, crash |-> 1, drop |-> 0, lost |-> 1, key |-> 0, renew |-> 0,
    late |-> 1]}

\* One upgrade, with most faults twice or with none.
OneUpgrade ==
  {[request |-> 1, corrupt |-> 2, crash |-> 2, drop |-> 2, lost |-> 2, key |-> 1, renew |-> 0,
    late |-> 0],
   [request |-> 1, corrupt |-> 0, crash |-> 0, drop |-> 0, lost |-> 0, key |-> 0, renew |-> 0,
    late |-> 0]}
=============================================================================
