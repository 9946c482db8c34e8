------------------------------ MODULE MCUartTx ------------------------------
(***************************************************************************)
(* A small instance of UartTx for TLC.                                     *)
(***************************************************************************)
EXTENDS UartTx
=============================================================================
