----------------------------- MODULE MCDownload -----------------------------
(* Values of Download's constants for TLC: one file ends inside a sector,  *)
(* the other exactly at the end of one.                                    *)
EXTENDS Download, TLC

CONSTANTS short, long

TwoVersions == {short, long}
TwoLengths  == short :> 4 @@ long :> 6
AllFaults   == {[get |-> 2, reset |-> 2, close |-> 1, nomem |-> 1, restart |-> 1],
                [get |-> 2, reset |-> 1, close |-> 0, nomem |-> 0, restart |-> 1]}
=============================================================================
