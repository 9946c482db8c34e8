------------------------------- MODULE RxLink -------------------------------
(***************************************************************************)
(* What the receive side of uart_meshtastic promises the rest of the       *)
(* firmware, and what Proxy assumes of it: the node's frames arrive whole, *)
(* in order, none twice.  Without a fault none is missing.  A fault (a bus *)
(* error, a full ring buffer, noise on the line) may cost frames, and may  *)
(* make one damaged frame of several.                                      *)
(***************************************************************************)
EXTENDS Integers, Sequences, FiniteSets

VARIABLES
  frames,   \* the number of frames the node has sent
  output,   \* what was handed on: frame numbers, 0 for a damaged frame
  trouble   \* faults so far

linkVars == <<frames, output, trouble>>

LinkInit == frames = 0 /\ output = <<>> /\ trouble = 0

\* The last whole frame handed on.
Latest == CHOOSE n \in 0..frames :
            /\ n = 0 \/ \E i \in 1..Len(output) : output[i] = n
            /\ \A i \in 1..Len(output) : output[i] <= n

Damages == Cardinality({i \in 1..Len(output) : output[i] = 0})

Send ==
  /\ frames' = frames + 1
  /\ UNCHANGED <<output, trouble>>

Fault ==
  /\ trouble' = trouble + 1
  /\ UNCHANGED <<frames, output>>

Deliver ==
  /\ \E n \in (Latest + 1)..frames :
       /\ trouble = 0 => n = Latest + 1
       /\ output' = Append(output, n)
  /\ UNCHANGED <<frames, trouble>>

DeliverDamaged ==
  /\ Damages < trouble
  /\ output' = Append(output, 0)
  /\ UNCHANGED <<frames, trouble>>

LinkNext == Send \/ Fault \/ Deliver \/ DeliverDamaged

LinkSpec == LinkInit /\ [][LinkNext]_linkVars
=============================================================================
