---------------------------- MODULE UartTxProofs ----------------------------
(***************************************************************************)
(* Proofs about UartTx: the inductive invariant, the safety properties     *)
(* that follow from it, and that the transmitter implements TxChannel.     *)
(***************************************************************************)
EXTENDS UartTx, TLAPS

(***************************************************************************)
(* FlagIsOwnership alone is not inductive: that a started transfer carries *)
(* a packet, and the right one, rests on what the handler holds between    *)
(* taking a packet and starting it.                                        *)
(***************************************************************************)
HandlerHolds ==
  /\ handler \in {"build", "mark", "start"} <=> entry # 0
  /\ handler \in {"mark", "start"} => tx_frame_buf = entry

IInv == TypeOK /\ HandlerHolds /\ FlagIsOwnership /\ FrameBufStable /\ NoLostWakeup

\* The initial state satisfies the inductive invariant.
LEMMA InitIInv == Init => IInv
<1> SUFFICES ASSUME Init PROVE IInv
  OBVIOUS
<1>1. TypeOK
  <2>1. tx_in_progress \in BOOLEAN /\ queued \in BOOLEAN
    BY Zenon DEF Init
  <2>2. /\ tx_msgq \in Seq(Nat \ {0}) /\ Len(tx_msgq) <= TxDepth
        /\ caller \subseteq Caller /\ handler \in Step
        /\ tx_frame_buf \in Nat /\ entry \in Nat /\ dma \in Nat /\ accepted \in Nat
    BY TxAssumption DEF Init, Step
  <2>3. QED
    BY <2>1, <2>2 DEF TypeOK
<1>2. HandlerHolds
  BY DEF Init, HandlerHolds
<1>3. FlagIsOwnership /\ FrameBufStable /\ NoLostWakeup
  BY DEF Init, FlagIsOwnership, FrameBufStable, NoLostWakeup
<1>4. QED
  BY <1>1, <1>2, <1>3 DEF IInv

\* Every variable keeps its type, and the queue its bound, over every step.
LEMMA TypeStep == TypeOK /\ [Next]_vars => TypeOK'
<1> SUFFICES ASSUME TypeOK, [Next]_vars PROVE TypeOK'
  OBVIOUS
<1> USE TxAssumption DEF TypeOK, Step, At
<1>1. ASSUME NEW t \in Caller, Put(t) PROVE TypeOK'
  BY <1>1 DEF Put
<1>2. ASSUME NEW t \in Caller, Submit(t) PROVE TypeOK'
  BY <1>2 DEF Submit
<1>3. CASE Get
  <2>1. CASE tx_msgq = <<>>
    BY <1>3, <2>1 DEF Get
  <2>2. CASE tx_msgq # <<>>
    <3>1. Head(tx_msgq) \in Nat \ {0} /\ Tail(tx_msgq) \in Seq(Nat \ {0})
          /\ Len(Tail(tx_msgq)) = Len(tx_msgq) - 1
      BY <2>2
    <3>2. QED
      BY <1>3, <2>2, <3>1 DEF Get
  <2>3. QED
    BY <2>1, <2>2
<1>4. CASE Run \/ Check \/ Build \/ Mark \/ Start \/ StartFails \/ ClearMark \/ Resubmit
  <2>1. tx_in_progress' \in BOOLEAN /\ queued' \in BOOLEAN
    BY <1>4, Zenon DEF Run, Check, Build, Mark, Start, StartFails, ClearMark, Resubmit
  <2>2. /\ UNCHANGED <<tx_msgq, caller, accepted>>
        /\ handler' \in Step
        /\ tx_frame_buf' \in Nat /\ entry' \in Nat /\ dma' \in Nat
    BY <1>4 DEF Run, Check, Build, Mark, Start, StartFails, ClearMark, Resubmit
  <2>3. QED
    BY <2>1, <2>2
<1>5. CASE TxEnds
  BY <1>5 DEF TxEnds
<1>6. CASE UNCHANGED vars
  BY <1>6 DEF vars
<1>7. QED
  BY <1>1, <1>2, <1>3, <1>4, <1>5, <1>6 DEF Next, Handler

\* What the handler holds, over every step.
LEMMA HoldsStep == TypeOK /\ HandlerHolds /\ [Next]_vars => HandlerHolds'
<1> SUFFICES ASSUME TypeOK, HandlerHolds, [Next]_vars PROVE HandlerHolds'
  OBVIOUS
<1> USE DEF HandlerHolds, At
<1>1. ASSUME NEW t \in Caller, Put(t) \/ Submit(t) PROVE HandlerHolds'
  BY <1>1 DEF Put, Submit
<1>2. CASE Get
  <2>1. tx_msgq # <<>> => Head(tx_msgq) # 0
    BY DEF TypeOK
  <2>2. QED
    BY <1>2, <2>1 DEF Get
<1>3. CASE Handler /\ ~Get
  BY <1>3 DEF Handler, Run, Check, Build, Mark, Start, StartFails, ClearMark, Resubmit
<1>4. CASE TxEnds \/ UNCHANGED vars
  BY <1>4 DEF TxEnds, vars
<1>5. QED
  BY <1>1, <1>2, <1>3, <1>4 DEF Next

\* The flag and the transfer agree over every step.
LEMMA FlagStep ==
  TypeOK /\ HandlerHolds /\ FlagIsOwnership /\ [Next]_vars => FlagIsOwnership'
<1> SUFFICES ASSUME TypeOK, HandlerHolds, FlagIsOwnership, [Next]_vars
             PROVE  FlagIsOwnership'
  OBVIOUS
<1> USE DEF TypeOK, HandlerHolds, FlagIsOwnership, At, Step
<1>1. ASSUME NEW t \in Caller, Put(t) \/ Submit(t) PROVE FlagIsOwnership'
  BY <1>1 DEF Put, Submit
<1>2. CASE Handler
  <2>1. CASE Run \/ Check \/ Get \/ Build \/ Resubmit
    BY <2>1 DEF Run, Check, Get, Build, Resubmit
  <2>2. CASE Mark
    <3>1. handler' = "start" /\ UNCHANGED dma /\ dma = 0
      BY <2>2 DEF Mark
    <3>2. tx_in_progress'
      BY <2>2, Zenon DEF Mark
    <3>3. QED
      BY <3>1, <3>2
  <2>3. CASE Start \/ StartFails
    BY <2>3 DEF Start, StartFails
  <2>4. CASE ClearMark
    BY <2>4 DEF ClearMark
  <2>5. QED
    BY <1>2, <2>1, <2>2, <2>3, <2>4 DEF Handler
<1>3. CASE TxEnds \/ UNCHANGED vars
  BY <1>3 DEF TxEnds, vars
<1>4. QED
  BY <1>1, <1>2, <1>3 DEF Next

\* The buffer of a running transfer is not written.
LEMMA BufStep ==
  TypeOK /\ HandlerHolds /\ FlagIsOwnership /\ FrameBufStable /\ [Next]_vars
    => FrameBufStable'
<1> SUFFICES ASSUME TypeOK, HandlerHolds, FlagIsOwnership, FrameBufStable, [Next]_vars
             PROVE  FrameBufStable'
  OBVIOUS
<1> USE DEF TypeOK, HandlerHolds, FlagIsOwnership, FrameBufStable, At
<1>1. ASSUME NEW t \in Caller, Put(t) \/ Submit(t) PROVE FrameBufStable'
  BY <1>1 DEF Put, Submit
<1>2. CASE Handler
  BY <1>2 DEF Handler, Run, Check, Get, Build, Mark, Start, StartFails, ClearMark, Resubmit
<1>3. CASE TxEnds \/ UNCHANGED vars
  BY <1>3 DEF TxEnds, vars
<1>4. QED
  BY <1>1, <1>2, <1>3 DEF Next

\* A waiting packet keeps somebody who will submit or run the work.
LEMMA WakeupStep ==
  TypeOK /\ HandlerHolds /\ FlagIsOwnership /\ NoLostWakeup /\ [Next]_vars => NoLostWakeup'
<1> SUFFICES ASSUME TypeOK, HandlerHolds, FlagIsOwnership, NoLostWakeup, [Next]_vars
             PROVE  NoLostWakeup'
  OBVIOUS
<1> USE DEF TypeOK, HandlerHolds, FlagIsOwnership, NoLostWakeup, At
<1>1. ASSUME NEW t \in Caller, Put(t) PROVE NoLostWakeup'
  BY <1>1 DEF Put
<1>2. ASSUME NEW t \in Caller, Submit(t) PROVE NoLostWakeup'
  BY <1>2 DEF Submit
<1>3. CASE Handler
  BY <1>3 DEF Handler, Run, Check, Get, Build, Mark, Start, StartFails, ClearMark, Resubmit
<1>4. CASE TxEnds \/ UNCHANGED vars
  BY <1>4 DEF TxEnds, vars
<1>5. QED
  BY <1>1, <1>2, <1>3, <1>4 DEF Next

\* The inductive invariant holds in every reachable state.
THEOREM Invariance == Spec => []IInv
<1>1. IInv /\ [Next]_vars => IInv'
  BY TypeStep, HoldsStep, FlagStep, BufStep, WakeupStep DEF IInv
<1>2. QED
  BY InitIInv, <1>1, PTL DEF Spec

\* For any number of callers and any queue depth, every variable of the transmitter keeps
\* its type and tx_msgq never exceeds TX_QUEUE_DEPTH.
THEOREM TypeCorrect == Spec => []TypeOK
<1>1. IInv => TypeOK
  BY DEF IInv
<1>2. QED
  BY Invariance, <1>1, PTL

\* tx_in_progress is exactly the ownership of the buffer.
THEOREM FlagCorrect == Spec => []FlagIsOwnership
<1>1. IInv => FlagIsOwnership
  BY DEF IInv
<1>2. QED
  BY Invariance, <1>1, PTL

\* The handler never writes tx_frame_buf while the UART reads it.
THEOREM BufferCorrect == Spec => []FrameBufStable
<1>1. IInv => FrameBufStable
  BY DEF IInv
<1>2. QED
  BY Invariance, <1>1, PTL

\* No interleaving of callers, handler and interrupt loses a wakeup.
THEOREM WakeupCorrect == Spec => []NoLostWakeup
<1>1. IInv => NoLostWakeup
  BY DEF IInv
<1>2. QED
  BY Invariance, <1>1, PTL

(***************************************************************************)
(* The refinement.  Taking a packet moves it from the queue to the         *)
(* handler, which the channel does not see; starting a transfer, or        *)
(* failing to, is where it leaves.                                         *)
(***************************************************************************)

\* The packet the handler takes stays the first of the waiting ones.
LEMMA HeadThenTail ==
  ASSUME NEW S, NEW q \in Seq(S), q # <<>>
  PROVE  <<Head(q)>> \o Tail(q) = q
  OBVIOUS

\* A packet that leaves the handler was the first of the waiting ones.
LEMMA FirstLeaves ==
  ASSUME NEW S, NEW q \in Seq(S), NEW e \in S
  PROVE  /\ <<e>> \o q # <<>>
         /\ Head(<<e>> \o q) = e
         /\ Tail(<<e>> \o q) = q
  OBVIOUS

\* A packet is accepted behind the one the handler holds.
LEMMA AppendBehind ==
  ASSUME NEW S, NEW q \in Seq(S), NEW e \in S, NEW x \in S
  PROVE  /\ <<e>> \o Append(q, x) = Append(<<e>> \o q, x)
         /\ Len(<<e>> \o q) = Len(q) + 1
  OBVIOUS

\* Every step of the transmitter is a step of the channel or leaves it as it is.
LEMMA ChannelStep == IInv /\ [Next]_vars => [Channel!ChanNext]_(Channel!chanVars)
<1> SUFFICES ASSUME IInv, [Next]_vars PROVE [Channel!ChanNext]_(Channel!chanVars)
  OBVIOUS
<1> DEFINE Packet == Nat \ {0}
<1>0. tx_msgq \in Seq(Packet) /\ Len(tx_msgq) <= TxDepth /\ entry \in Nat /\ dma \in Nat
      /\ accepted \in Nat /\ TxDepth \in Nat
  BY TxAssumption DEF IInv, TypeOK
<1>1. ASSUME NEW t \in Caller, Put(t) PROVE Channel!Accept
  <2>1. CASE entry = 0
    BY <1>0, <1>1, <2>1 DEF Put, Waiting, Channel!Accept
  <2>2. CASE entry # 0
    <3>1. Waiting = <<entry>> \o tx_msgq /\ Waiting' = <<entry>> \o Append(tx_msgq, accepted + 1)
      BY <1>1, <2>2 DEF Put, Waiting
    <3>2. Waiting' = Append(Waiting, accepted + 1) /\ Len(Waiting) = Len(tx_msgq) + 1
      <4>1. entry \in Packet /\ accepted + 1 \in Packet
        BY <1>0, <2>2
      <4>2. QED
        BY <1>0, <4>1, <3>1, AppendBehind, Zenon
    <3>3. QED
      BY <1>0, <1>1, <3>2 DEF Put, Channel!Accept
  <2>3. QED
    BY <2>1, <2>2
<1>2. CASE Get
  <2>1. CASE tx_msgq = <<>>
    BY <1>0, <1>2, <2>1 DEF Get, At, IInv, HandlerHolds, Waiting, Channel!chanVars
  <2>2. CASE tx_msgq # <<>>
    <3>1. entry = 0 /\ entry' = Head(tx_msgq) /\ Head(tx_msgq) # 0 /\ tx_msgq' = Tail(tx_msgq)
          /\ UNCHANGED <<dma, accepted>>
      BY <1>0, <1>2, <2>2 DEF Get, At, IInv, HandlerHolds
    <3>2. Waiting' = Waiting
      BY <1>0, <2>2, <3>1, HeadThenTail DEF Waiting
    <3>3. QED
      BY <3>1, <3>2 DEF Channel!chanVars
  <2>3. QED
    BY <2>1, <2>2
<1>3. CASE Start \/ StartFails
  <2>1. entry \in Packet /\ dma = 0
    BY <1>0, <1>3 DEF Start, StartFails, At, IInv, HandlerHolds, FlagIsOwnership
  <2>2. Waiting = <<entry>> \o tx_msgq /\ Waiting' = tx_msgq
    BY <1>3, <2>1 DEF Start, StartFails, Waiting
  <2>3. Waiting # <<>> /\ Head(Waiting) = entry /\ Waiting' = Tail(Waiting)
    BY <1>0, <2>1, <2>2, FirstLeaves
  <2>4. CASE Start
    BY <2>1, <2>3, <2>4 DEF Start, Channel!ChanNext, Channel!Transmit
  <2>5. CASE StartFails
    BY <2>1, <2>3, <2>5 DEF StartFails, Channel!ChanNext, Channel!Drop
  <2>6. QED
    BY <1>3, <2>4, <2>5
<1>4. CASE Run \/ Check \/ Build \/ Mark \/ ClearMark \/ Resubmit
           \/ (\E t \in Caller : Submit(t)) \/ UNCHANGED vars
  <2>1. UNCHANGED <<tx_msgq, entry, dma, accepted>>
    BY <1>4 DEF Run, Check, Build, Mark, ClearMark, Resubmit, Submit, vars
  <2>2. QED
    BY <2>1 DEF Waiting, Channel!chanVars
<1>5. CASE TxEnds
  BY <1>5 DEF TxEnds, Waiting, Channel!ChanNext, Channel!Finish
<1>6. QED
  BY <1>1, <1>2, <1>3, <1>4, <1>5 DEF Next, Handler, Channel!ChanNext

\* The transmitter implements the channel of TxChannel: packets go onto the wire one at a
\* time and in the order in which uart_meshtastic_tx accepted them, none twice.
THEOREM Refinement == Spec => ImplementsChannel
<1>1. Init => Channel!ChanInit
  BY DEF Init, Waiting, Channel!ChanInit
<1>2. QED
  BY <1>1, Invariance, ChannelStep, PTL DEF Spec, ImplementsChannel, Channel!ChanSpec
=============================================================================
