-------------------------- MODULE MCProxyProtocol --------------------------
(***************************************************************************)
(* A small instance of ProxyProtocol for TLC.  There are two bytes, zero   *)
(* and one that is also the version.                                       *)
(***************************************************************************)
EXTENDS ProxyProtocol

\* Strings, up to one byte longer than an identifier.
ShortTexts == {[i \in 1..n |-> 1] : n \in 0..(PROXY_ID_SIZE + 1)}

\* Messages of equal bytes, of every length.
EqualBytes == {[i \in 1..n |-> b] : n \in 0..(LenMod - 1), b \in Byte}
============================================================================
