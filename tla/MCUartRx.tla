------------------------------ MODULE MCUartRx ------------------------------
(* UartRx for TLC: the sizes are given in the configurations.              *)
EXTENDS UartRx
=============================================================================
