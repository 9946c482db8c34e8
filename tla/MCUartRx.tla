------------------------------ MODULE MCUartRx ------------------------------
(***************************************************************************)
(* A small instance of UartRx for TLC.  A byte has four values; 3 and 2    *)
(* are the magic bytes.  Payloads may contain either, not 3 followed by 2. *)
(***************************************************************************)
EXTENDS UartRx

Payloads == {<<3>>, <<2, 3>>}

\* A whole header, and a lone first magic byte.
NoiseBursts == {<<3, 2, 0, 2>>, <<3>>}
=============================================================================
