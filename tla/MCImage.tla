------------------------------- MODULE MCImage -------------------------------
(* Values of Image's constants for TLC.  The banks are as far apart as in    *)
(* flash maps 5 and 6, CountWrap sectors, and the MCU's area is between them. *)
EXTENDS Image

SmallAreas == {"wifi1", "mcu", "wifi2"}
Layout     == [wifi1 |-> 0, mcu |-> 8, wifi2 |-> 16]
SmallSizes == (0 .. 9) \union {12, 15, 16, 17, 19, 63}
=============================================================================
