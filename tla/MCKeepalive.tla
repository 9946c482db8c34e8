----------------------------- MODULE MCKeepalive -----------------------------
(***************************************************************************)
(* Small instances of Keepalive for TLC.                                   *)
(***************************************************************************)
EXTENDS Keepalive
==============================================================================
