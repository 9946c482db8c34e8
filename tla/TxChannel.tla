----------------------------- MODULE TxChannel -----------------------------
(***************************************************************************)
(* What the transmit side of uart_meshtastic promises its callers: a       *)
(* bounded queue whose packets go onto the wire one at a time, in the      *)
(* order in which they were accepted, each at most once; the packet that   *)
(* is next may be dropped when the driver refuses it.                      *)
(***************************************************************************)
EXTENDS Integers, Sequences

CONSTANT Capacity   \* packets that can wait

VARIABLES
  waiting,   \* accepted packets, numbered in the order of acceptance
  wire,      \* the packet on the wire, 0 if none
  count      \* packets accepted

chanVars == <<waiting, wire, count>>

ChanInit == waiting = <<>> /\ wire = 0 /\ count = 0

Accept ==
  /\ Len(waiting) < Capacity
  /\ count' = count + 1
  /\ waiting' = Append(waiting, count')
  /\ UNCHANGED wire

Transmit ==
  /\ waiting # <<>> /\ wire = 0
  /\ wire' = Head(waiting)
  /\ waiting' = Tail(waiting)
  /\ UNCHANGED count

Drop ==
  /\ waiting # <<>> /\ wire = 0
  /\ waiting' = Tail(waiting)
  /\ UNCHANGED <<wire, count>>

Finish ==
  /\ wire # 0
  /\ wire' = 0
  /\ UNCHANGED <<waiting, count>>

ChanNext == Accept \/ Transmit \/ Drop \/ Finish

ChanSpec == ChanInit /\ [][ChanNext]_chanVars
=============================================================================
