----------------------------- MODULE MCReadPath -----------------------------
(***************************************************************************)
(* A small instance of ReadPath for TLC: frames shorter than, as long as   *)
(* and longer than one ATT response of two bytes.                          *)
(***************************************************************************)
EXTENDS ReadPath

ThreeFrames  == {<<1>>, <<2, 3>>, <<4, 5, 6>>}
CompleteIs   == <<9>>
=============================================================================
